---- MODULE Spec2Model ----
(***************************************************************************)
(* librle: Return Link Encapsulation.  Model of the transmitter facade     *)
(* (rle_transmitter.c, encap.c, rle_ctx.c) and of the receiver's           *)
(* reassembly state machines (reassembly.c).                               *)
(*                                                                         *)
(* Sizes of type size_t are kept as integers n standing for n mod 2^64: a  *)
(* negative n is the wrapped value 2^64 + n.  ULt/ULe/UGt compare them as  *)
(* the unsigned comparison of the C code does.                             *)
(***************************************************************************)
EXTENDS Integers, Sequences, FiniteSets, TLC

VARIABLES
    conf,             \* configuration shared by transmitter and receiver
    trmt,             \* struct rle_transmitter: free_ctx bitmap, rle_ctx_man[8]
    rcv,              \* struct rle_receiver: free_ctx, rle_ctx_man[8], is_ctx_seqnum_init[8]
    reassembled_sdu,  \* the caller's struct rle_sdu filled by reassembly
    wire,             \* PPDUs emitted by the transmitter, not yet given to the receiver
    tx_last,          \* the last transmitter call: operation, arguments, returned status
    rx_last,          \* the last receiver call: PPDU, status, context before the call
    submitted,        \* SDUs handed to rle_transmitter_encap_data, in order
    delivered,        \* SDUs the receiver returned C_REASSEMBLY_OK for, in order
    steps,            \* number of calls made so far (bounds the counters)
    threads,          \* producer threads inside rle_transmitter_encap_data: position, arguments, status
    modules,          \* the caller's handles of transmitter, receiver and fragmentation buffer, and what they point to
    f_buff            \* the caller's fragmentation buffer: its state in the lifecycle and its ALPDU

vars == <<f_buff, modules, conf, trmt, rcv, reassembled_sdu, wire, tx_last, rx_last,
          submitted, delivered, steps, threads>>

txvars == <<trmt, tx_last, submitted>>
rxvars == <<rcv, reassembled_sdu, rx_last, delivered>>

-----------------------------------------------------------------------------
(* Bounds of the model *)

\* calls made in one behaviour of the receiver specification
MaxPpdus == 3
\* transmitter calls made in one behaviour of the pipeline specification
MaxCalls == 4
\* ALPDUs sent in one behaviour of the link specification
MaxAlpdus == 2
\* ALPDUs with an inverted bit in one behaviour of the link specification
MaxFlips == 1
\* transmitter calls made in one behaviour of the fragmentation specification
MaxBursts == 10
\* calls made in one behaviour of the encapsulation specification
MaxEncaps == 2
MaxVlanPpdus == 3
VlanCut == 9
MaxPacked == 3
FpduLen == 40
MaxIncrs == 9

-----------------------------------------------------------------------------
(* Program constants *)

RLE_MAX_FRAG_NUMBER == 8
RLE_MAX_FRAG_ID == 7
RLE_MAX_PDU_SIZE == 4088
RLE_MAX_SEQ_NO == 8

RLE_PROTO_TYPE_IPV4_UNCOMP == 2048          \* 0x0800
RLE_PROTO_TYPE_IPV6_UNCOMP == 34525         \* 0x86dd
RLE_PROTO_TYPE_VLAN_UNCOMP == 33024         \* 0x8100
RLE_PROTO_TYPE_VLAN_QINQ_UNCOMP == 34984    \* 0x88a8
RLE_PROTO_TYPE_VLAN_QINQ_LEGACY_UNCOMP == 37120  \* 0x9100
RLE_PROTO_TYPE_ARP_UNCOMP == 2054           \* 0x0806
RLE_PROTO_TYPE_SIGNAL_UNCOMP == 130         \* 0x0082

RLE_PROTO_TYPE_IPV4_COMP == 13              \* 0x0d
RLE_PROTO_TYPE_IPV6_COMP == 17              \* 0x11
RLE_PROTO_TYPE_VLAN_COMP == 15              \* 0x0f
RLE_PROTO_TYPE_VLAN_QINQ_COMP == 25         \* 0x19
RLE_PROTO_TYPE_VLAN_QINQ_LEGACY_COMP == 26  \* 0x1a
RLE_PROTO_TYPE_ARP_COMP == 14               \* 0x0e
RLE_PROTO_TYPE_SIGNAL_COMP == 66            \* 0x42
RLE_PROTO_TYPE_IP_COMP == 48                \* 0x30
RLE_PROTO_TYPE_VLAN_COMP_WO_PTYPE_FIELD == 49  \* 0x31
RLE_PROTO_TYPE_FALLBACK == 255              \* 0xff

\* the largest size of a label field (implicit_ppdu_label_size and the others)
RLE_MAX_LABEL_SIZE == 15

IP_VERSION_4 == 4
IP_VERSION_6 == 6

FragIds == 0 .. RLE_MAX_FRAG_ID
\* the fragment-ids the environment uses (all eight contexts exist)
UsedFids == {0, 1}

-----------------------------------------------------------------------------
(* size_t arithmetic: n < 0 stands for 2^64 + n *)

ULt(a, b) ==
    IF (a >= 0) = (b >= 0) THEN a < b ELSE a >= 0

UGt(a, b) == ULt(b, a)
ULe(a, b) == ~ULt(b, a)

-----------------------------------------------------------------------------
(* Bytes and bits *)

BitOf(b, k) == (b \div (2 ^ k)) % 2

FlipBit(b, k) == IF BitOf(b, k) = 1 THEN b - 2 ^ k ELSE b + 2 ^ k

\* s with bit k of its (1-based) byte i inverted
FlipBitAt(s, i, k) == [s EXCEPT ![i] = FlipBit(s[i], k)]

\* the 16-bit protocol type as the two bytes of the ALPDU header field
PtypeBytes(ptype) == <<ptype % 256, ptype \div 256>>

PtypeOfBytes(b0, b1) == b0 + 256 * b1

Take(s, n) == SubSeq(s, 1, n)
Drop(s, n) == SubSeq(s, n + 1, Len(s))

-----------------------------------------------------------------------------
(* Protocol-type table (rle_header_proto_type_field.c) *)

rle_header_ptype_decompression(comp) ==
    CASE comp = RLE_PROTO_TYPE_IPV4_COMP -> RLE_PROTO_TYPE_IPV4_UNCOMP
      [] comp = RLE_PROTO_TYPE_IPV6_COMP -> RLE_PROTO_TYPE_IPV6_UNCOMP
      [] comp = RLE_PROTO_TYPE_VLAN_COMP -> RLE_PROTO_TYPE_VLAN_UNCOMP
      [] comp = RLE_PROTO_TYPE_VLAN_COMP_WO_PTYPE_FIELD -> RLE_PROTO_TYPE_VLAN_UNCOMP
      [] comp = RLE_PROTO_TYPE_VLAN_QINQ_COMP -> RLE_PROTO_TYPE_VLAN_QINQ_UNCOMP
      [] comp = RLE_PROTO_TYPE_VLAN_QINQ_LEGACY_COMP -> RLE_PROTO_TYPE_VLAN_QINQ_LEGACY_UNCOMP
      [] comp = RLE_PROTO_TYPE_ARP_COMP -> RLE_PROTO_TYPE_ARP_UNCOMP
      [] comp = RLE_PROTO_TYPE_SIGNAL_COMP -> RLE_PROTO_TYPE_SIGNAL_UNCOMP
      [] OTHER -> 0

rle_header_ptype_is_compressible(ptype) ==
    ptype \in {RLE_PROTO_TYPE_IPV4_UNCOMP, RLE_PROTO_TYPE_IPV6_UNCOMP,
               RLE_PROTO_TYPE_VLAN_UNCOMP, RLE_PROTO_TYPE_VLAN_QINQ_UNCOMP,
               RLE_PROTO_TYPE_VLAN_QINQ_LEGACY_UNCOMP, RLE_PROTO_TYPE_ARP_UNCOMP,
               RLE_PROTO_TYPE_SIGNAL_UNCOMP}

rle_header_ptype_compression(ptype) ==
    CASE ptype = RLE_PROTO_TYPE_IPV4_UNCOMP -> RLE_PROTO_TYPE_IPV4_COMP
      [] ptype = RLE_PROTO_TYPE_IPV6_UNCOMP -> RLE_PROTO_TYPE_IPV6_COMP
      [] ptype = RLE_PROTO_TYPE_VLAN_UNCOMP -> RLE_PROTO_TYPE_VLAN_COMP
      [] ptype = RLE_PROTO_TYPE_VLAN_QINQ_UNCOMP -> RLE_PROTO_TYPE_VLAN_QINQ_COMP
      [] ptype = RLE_PROTO_TYPE_VLAN_QINQ_LEGACY_UNCOMP -> RLE_PROTO_TYPE_VLAN_QINQ_LEGACY_COMP
      [] ptype = RLE_PROTO_TYPE_ARP_UNCOMP -> RLE_PROTO_TYPE_ARP_COMP
      [] ptype = RLE_PROTO_TYPE_SIGNAL_UNCOMP -> RLE_PROTO_TYPE_SIGNAL_COMP
      [] OTHER -> RLE_PROTO_TYPE_FALLBACK

-----------------------------------------------------------------------------
(* CRC-32 (crc.c): the 32-bit register is kept as its two 16-bit halves,    *)
(* hi and lo.                                                                *)

\* exclusive or of two digits of base 16, and of two numbers of 16 bits
XorNibble ==
    [a \in 0 .. 15 |-> [b \in 0 .. 15 |->
        ((a + b) % 2)
        + 2 * (((a \div 2) + (b \div 2)) % 2)
        + 4 * (((a \div 4) + (b \div 4)) % 2)
        + 8 * (((a \div 8) + (b \div 8)) % 2)]]

BitXor(a, b) ==
    XorNibble[a % 16][b % 16]
    + 16 * XorNibble[(a \div 16) % 16][(b \div 16) % 16]
    + 256 * XorNibble[(a \div 256) % 16][(b \div 256) % 16]
    + 4096 * XorNibble[a \div 4096][b \div 4096]

CrcReg(hi, lo) == [hi |-> hi, lo |-> lo]

\* the reflected polynomial 0xEDB88320
CrcPoly == CrcReg(60856, 33568)

CrcXor(a, b) == CrcReg(BitXor(a.hi, b.hi), BitXor(a.lo, b.lo))

CrcShr(a) == CrcReg(a.hi \div 2, (a.lo \div 2) + 32768 * (a.hi % 2))

RECURSIVE CrcRound(_, _)
CrcRound(reg, n) ==
    IF n = 0 THEN reg
    ELSE CrcRound(IF reg.lo % 2 = 1 THEN CrcXor(CrcShr(reg), CrcPoly) ELSE CrcShr(reg),
                  n - 1)

\* the register after eight rounds on each value of its low byte
CrcTable == [b \in 0 .. 255 |-> CrcRound(CrcReg(0, b), 8)]

\* the register moved right by one byte
CrcShr8(a) == CrcReg(a.hi \div 256, (a.lo \div 256) + 256 * (a.hi % 256))

\* (the test of reg.lo has the register evaluated at every byte, not
\* kept as one nested expression)
RECURSIVE CrcUpdate(_, _)
CrcUpdate(reg, bytes) ==
    IF bytes = <<>> \/ reg.lo < 0 THEN reg
    ELSE CrcUpdate(CrcXor(CrcTable[BitXor(reg.lo % 256, Head(bytes))], CrcShr8(reg)),
                   Tail(bytes))

\* the register as its four bytes, least significant first
CrcBytes(reg) == <<reg.lo % 256, reg.lo \div 256, reg.hi % 256, reg.hi \div 256>>

\* CRC of an SDU: over its protocol type field followed by its bytes
compute_crc32(sdu) ==
    LET reg == CrcUpdate(CrcReg(65535, 65535),
                         PtypeBytes(sdu.protocol_type) \o sdu.buffer)
    IN  CrcBytes(CrcReg(65535 - reg.hi, 65535 - reg.lo))

-----------------------------------------------------------------------------
(* PPDUs.  A PPDU is the record of its header fields and its ALPDU         *)
(* fragment: kind (COMP, START, CONT, END, from the S and E bits), fid,     *)
(* frag (the bytes after the PPDU header), and for START total (the total   *)
(* ALPDU length field) and crc (use-CRC bit); supp and sig are the          *)
(* protocol-type-suppressed bit and the signal label type of COMP/START.    *)

Ppdu(kind, fid, frag, total, crc, supp, sig) ==
    [kind |-> kind, fid |-> fid, frag |-> frag, total |-> total,
     crc |-> crc, supp |-> supp, sig |-> sig]

\* sizeof the PPDU header: 4 bytes for START, 2 for COMP, CONT and END
PpduHdrLen(kind) == IF kind = "START" THEN 4 ELSE 2

PpduLength(ppdu) == PpduHdrLen(ppdu.kind) + Len(ppdu.frag)

sizeof_crc_trailer == 4
sizeof_seqno_trailer == 1
sizeof_alpdu_hdr_uncomp == 2

-----------------------------------------------------------------------------
(* ALPDU header extraction (header.c).  Each returns ret (0 is success),    *)
(* the protocol type, the compressed protocol type, the SDU fragment and    *)
(* the ALPDU header length.                                                 *)

Extracted(ret, ptype, comp, sdu_frag, hdr_len) ==
    [ret |-> ret, ptype |-> ptype, comp_ptype |-> comp,
     sdu_frag |-> sdu_frag, hdr_len |-> hdr_len]

signal_alpdu_extract_sdu_frag(alpdu_frag) ==
    Extracted(0, RLE_PROTO_TYPE_SIGNAL_UNCOMP, RLE_PROTO_TYPE_SIGNAL_COMP, alpdu_frag, 0)

suppr_alpdu_extract_sdu_frag(alpdu_frag, cnf) ==
    LET implicit == cnf.implicit_protocol_type
    IN  IF implicit # RLE_PROTO_TYPE_IP_COMP
        THEN Extracted(0, rle_header_ptype_decompression(implicit), implicit, alpdu_frag, 0)
        ELSE IF alpdu_frag = <<>>
        THEN Extracted(1, 0, implicit, alpdu_frag, 0)
        ELSE LET version == alpdu_frag[1] \div 16
             IN  CASE version = IP_VERSION_4 ->
                        Extracted(0, RLE_PROTO_TYPE_IPV4_UNCOMP, RLE_PROTO_TYPE_IPV4_COMP,
                                  alpdu_frag, 0)
                   [] version = IP_VERSION_6 ->
                        Extracted(0, RLE_PROTO_TYPE_IPV6_UNCOMP, RLE_PROTO_TYPE_IPV6_COMP,
                                  alpdu_frag, 0)
                   [] OTHER -> Extracted(1, 0, implicit, alpdu_frag, 0)

comp_alpdu_extract_sdu_frag(alpdu_frag) ==
    IF Len(alpdu_frag) < 1 THEN Extracted(1, 0, 0, <<>>, 0)
    ELSE IF alpdu_frag[1] = RLE_PROTO_TYPE_FALLBACK
    THEN IF Len(alpdu_frag) < 3 THEN Extracted(1, 0, RLE_PROTO_TYPE_FALLBACK, <<>>, 0)
         ELSE Extracted(0, PtypeOfBytes(alpdu_frag[2], alpdu_frag[3]),
                        RLE_PROTO_TYPE_FALLBACK, Drop(alpdu_frag, 3), 3)
    ELSE Extracted(0, rle_header_ptype_decompression(alpdu_frag[1]), alpdu_frag[1],
                   Drop(alpdu_frag, 1), 1)

uncomp_alpdu_extract_sdu_frag(alpdu_frag) ==
    IF Len(alpdu_frag) < sizeof_alpdu_hdr_uncomp THEN Extracted(1, 0, 0, <<>>, 0)
    ELSE LET ptype == PtypeOfBytes(alpdu_frag[1], alpdu_frag[2])
         IN  Extracted(0, ptype, rle_header_ptype_compression(ptype),
                       Drop(alpdu_frag, 2), sizeof_alpdu_hdr_uncomp)

-----------------------------------------------------------------------------
(* Receiver contexts (rle_receiver.c, rle_ctx.c, reassembly_buffer.c)       *)

\* the reassembly buffer: sdu_len is sdu.end - sdu.start, sdu_frag the bytes
\* copied so far (sdu.start .. sdu_frag.end), sdu_info the SDU description
RasmBufInit ==
    [sdu_len |-> 0, sdu_frag |-> <<>>, protocol_type |-> 0,
     comp_protocol_type |-> 0, size |-> 0]

RcvCtxInit ==
    [current_counter |-> 0, counter_in |-> 0, counter_bytes_in |-> 0,
     counter_dropped |-> 0, counter_lost |-> 0, counter_bytes_dropped |-> 0,
     counter_ok |-> 0, counter_bytes_ok |-> 0,
     use_crc |-> FALSE, next_seq_nb |-> 0, buff |-> RasmBufInit]

\* free_ctx is the set of fragment-ids whose bit is set (context in use)
RcvInit ==
    [free_ctx |-> {},
     rle_ctx_man |-> [f \in FragIds |-> RcvCtxInit],
     is_ctx_seqnum_init |-> [f \in FragIds |-> FALSE]]

SduInit == [size |-> 0, protocol_type |-> 0, buffer |-> <<>>]

is_context_free(R, idx) == idx \notin R.free_ctx

rasm_buf_get_sdu_len(buf) == buf.sdu_len

rasm_buf_get_reassembled_sdu_len(buf) == Len(buf.sdu_frag)

\* rle_ctx_incr_counter_dropped, _lost, _bytes_dropped as the error paths call them
ctx_count_drop(c, lost) ==
    [c EXCEPT !.counter_dropped = @ + 1,
              !.counter_lost = @ + lost,
              !.counter_bytes_dropped = @ + c.current_counter]

\* the result of a reassembly call: the receiver, the caller's SDU, the status
RxResult(R, sdu, ret) == [rcv |-> R, sdu |-> sdu, ret |-> ret]

rle_receiver_free_context(R, idx) == [R EXCEPT !.free_ctx = @ \ {idx}]

set_nonfree_rcv_ctx(R, idx) == [R EXCEPT !.free_ctx = @ \cup {idx}]

-----------------------------------------------------------------------------
(* ALPDU trailer check (trailer.c): status 0 is a valid trailer.            *)

check_alpdu_trailer(trailer, sdu, c, seqnum_init) ==
    IF c.use_crc
    THEN [status |-> IF trailer = compute_crc32(sdu) THEN 0 ELSE 1,
          lost_packets |-> 0, next_seq_nb |-> c.next_seq_nb, init |-> seqnum_init]
    ELSE LET received == trailer[1] % RLE_MAX_SEQ_NO
         IN  IF ~seqnum_init
             THEN [status |-> 0, lost_packets |-> 0,
                   next_seq_nb |-> (received + 1) % RLE_MAX_SEQ_NO, init |-> TRUE]
             ELSE [status |-> 0,
                   lost_packets |-> (received - c.next_seq_nb) % RLE_MAX_SEQ_NO,
                   next_seq_nb |-> (received + 1) % RLE_MAX_SEQ_NO, init |-> TRUE]

-----------------------------------------------------------------------------
(* reassembly.c *)

sizeof_ether_header == 14
sizeof_vlan_hdr == 4

\* reassembly_insert_vlan_ptype without the test of the IP version: every
\* payload that is not IPv4 is taken for IPv6
reassembly_insert_vlan_ptype_any_ip(sdu_frag, sdu_frag_len, sdu) ==
    LET comp_eth_vlan_len == sizeof_ether_header + sizeof_vlan_hdr - 2
    IN  IF ULt(sdu_frag_len, comp_eth_vlan_len + 1) THEN [ok |-> FALSE, sdu |-> sdu]
        ELSE IF 256 * sdu_frag[13] + sdu_frag[14] # RLE_PROTO_TYPE_VLAN_UNCOMP
        THEN [ok |-> FALSE, sdu |-> sdu]
        ELSE LET vlan_uncomp_ptype ==
                     IF (sdu_frag[comp_eth_vlan_len + 1] \div 16) % 16 = IP_VERSION_4
                     THEN RLE_PROTO_TYPE_IPV4_UNCOMP
                     ELSE RLE_PROTO_TYPE_IPV6_UNCOMP
             IN  [ok |-> TRUE,
                  sdu |-> [size |-> sdu_frag_len + 2,
                           protocol_type |-> RLE_PROTO_TYPE_VLAN_UNCOMP,
                           buffer |-> Take(sdu_frag, comp_eth_vlan_len)
                                      \o <<vlan_uncomp_ptype \div 256,
                                           vlan_uncomp_ptype % 256>>
                                      \o Drop(sdu_frag, comp_eth_vlan_len)]]

\* reassembly_insert_vlan_ptype: ok is the returned bool, sdu the caller's SDU
reassembly_insert_vlan_ptype(sdu_frag, sdu_frag_len, sdu) ==
    LET comp_eth_vlan_len == sizeof_ether_header + sizeof_vlan_hdr - 2
        sdu_min_len == comp_eth_vlan_len + 1
    IN  IF ULt(sdu_frag_len, sdu_min_len) THEN [ok |-> FALSE, sdu |-> sdu]
        ELSE LET eth_proto_type == 256 * sdu_frag[13] + sdu_frag[14]
                 ip_version == (sdu_frag[comp_eth_vlan_len + 1] \div 16) % 16
             IN  IF eth_proto_type # RLE_PROTO_TYPE_VLAN_UNCOMP
                 THEN [ok |-> FALSE, sdu |-> sdu]
                 ELSE IF ip_version \notin {IP_VERSION_4, IP_VERSION_6}
                 THEN [ok |-> FALSE, sdu |-> sdu]
                 ELSE LET vlan_uncomp_ptype ==
                              IF ip_version = IP_VERSION_4
                              THEN RLE_PROTO_TYPE_IPV4_UNCOMP
                              ELSE RLE_PROTO_TYPE_IPV6_UNCOMP
                      IN  [ok |-> TRUE,
                           sdu |-> [size |-> sdu_frag_len + 2,
                                    protocol_type |-> RLE_PROTO_TYPE_VLAN_UNCOMP,
                                    buffer |-> Take(sdu_frag, comp_eth_vlan_len)
                                               \o <<vlan_uncomp_ptype \div 256,
                                                    vlan_uncomp_ptype % 256>>
                                               \o Drop(sdu_frag, comp_eth_vlan_len)]]

\* lines 311-341 of reassembly_start_ppdu (and 192-217 of reassembly_comp_ppdu):
\* the extraction chosen by the PPDU header bits and the configuration
alpdu_extract_sdu_frag(ppdu, cnf) ==
    IF ppdu.supp
    THEN IF ppdu.sig THEN signal_alpdu_extract_sdu_frag(ppdu.frag)
         ELSE suppr_alpdu_extract_sdu_frag(ppdu.frag, cnf)
    ELSE IF cnf.use_compressed_ptype THEN comp_alpdu_extract_sdu_frag(ppdu.frag)
    ELSE uncomp_alpdu_extract_sdu_frag(ppdu.frag)

reassembly_comp_ppdu(R, sdu, ppdu) ==
    LET ex == alpdu_extract_sdu_frag(ppdu, conf)
    IN  IF ex.ret # 0 THEN RxResult(R, sdu, "C_ERROR")
        ELSE IF ex.comp_ptype # RLE_PROTO_TYPE_VLAN_COMP_WO_PTYPE_FIELD
        THEN RxResult(R, [size |-> Len(ex.sdu_frag), protocol_type |-> ex.ptype,
                          buffer |-> ex.sdu_frag], "C_REASSEMBLY_OK")
        ELSE LET v == reassembly_insert_vlan_ptype(ex.sdu_frag, Len(ex.sdu_frag), sdu)
             IN  IF v.ok THEN RxResult(R, v.sdu, "C_REASSEMBLY_OK")
                 ELSE RxResult(R, v.sdu, "C_ERROR")

\* start_alpdu_trailer_len ignoring the use-CRC bit of the START PPDU header
start_alpdu_trailer_len_seqno_only(is_crc_used) == sizeof_seqno_trailer

\* lines 354-360: the trailer length announced by the use-CRC bit
start_alpdu_trailer_len(is_crc_used) ==
    IF is_crc_used THEN sizeof_crc_trailer ELSE sizeof_seqno_trailer

\* rasm_buf_start giving the SDU the size of its first fragment
rasm_buf_start_size_of_frag(sdu_total_len, ex) ==
    [sdu_len |-> sdu_total_len, sdu_frag |-> ex.sdu_frag,
     protocol_type |-> ex.ptype, comp_protocol_type |-> ex.comp_ptype,
     size |-> Len(ex.sdu_frag)]

\* lines 377-383: the reassembly buffer as an accepted START PPDU fills it
rasm_buf_start(sdu_total_len, ex) ==
    [sdu_len |-> sdu_total_len, sdu_frag |-> ex.sdu_frag,
     protocol_type |-> ex.ptype, comp_protocol_type |-> ex.comp_ptype,
     size |-> sdu_total_len]

\* start_ppdu_out counting the drop without the lost packet
start_ppdu_out_no_lost(R, idx, c, ret) ==
    IF ret # "C_OK"
    THEN rle_receiver_free_context(
             [R EXCEPT !.rle_ctx_man[idx] = ctx_count_drop(c, 0)], idx)
    ELSE [R EXCEPT !.rle_ctx_man[idx] = c]

\* lines 389-396: the exit of reassembly_start_ppdu
start_ppdu_out(R, idx, c, ret) ==
    IF ret # "C_OK"
    THEN rle_receiver_free_context(
             [R EXCEPT !.rle_ctx_man[idx] = ctx_count_drop(c, 1)], idx)
    ELSE [R EXCEPT !.rle_ctx_man[idx] = c]

reassembly_start_ppdu(R, sdu, ppdu) ==
    LET idx == ppdu.fid
        ppdu_length == PpduLength(ppdu)
        c1 == [R.rle_ctx_man[idx] EXCEPT !.current_counter = ppdu_length,
                                         !.counter_in = @ + 1,
                                         !.counter_bytes_in = @ + ppdu_length]
    IN  IF ~is_context_free(R, idx)
        THEN RxResult(start_ppdu_out(R, idx, c1, "C_ERROR"), sdu, "C_ERROR")
        ELSE
        LET R1 == set_nonfree_rcv_ctx(R, idx)
            ex == alpdu_extract_sdu_frag(ppdu, conf)
            sdu_frag_len == Len(ex.sdu_frag)
            alpdu_total_len == ppdu.total
            sdu_total_len1 == alpdu_total_len - ex.hdr_len
            alpdu_trailer_len == start_alpdu_trailer_len(ppdu.crc)
            sdu_total_len == sdu_total_len1 - alpdu_trailer_len
            c2 == [c1 EXCEPT !.use_crc = ppdu.crc]
        IN  IF ex.ret # 0
            THEN RxResult(start_ppdu_out(R1, idx, c1, "C_ERROR"), sdu, "C_ERROR")
            ELSE IF UGt(sdu_frag_len, alpdu_total_len)
            THEN RxResult(start_ppdu_out(R1, idx, c1, "C_ERROR"), sdu, "C_ERROR")
            ELSE IF UGt(alpdu_trailer_len, sdu_total_len1)
            THEN RxResult(start_ppdu_out(R1, idx, c1, "C_ERROR"), sdu, "C_ERROR")
            ELSE IF UGt(sdu_frag_len, sdu_total_len)
            THEN RxResult(start_ppdu_out(R1, idx, c2, "C_ERROR"), sdu, "C_ERROR")
            ELSE RxResult(
                     start_ppdu_out(R1, idx,
                         [c2 EXCEPT !.buff = rasm_buf_start(sdu_total_len, ex)],
                         "C_OK"),
                     sdu, "C_OK")

\* rasm_buf_overflows letting one byte too many through
rasm_buf_overflows_off_by_one(buf, sdu_frag_len) ==
    UGt(rasm_buf_get_reassembled_sdu_len(buf) + sdu_frag_len,
        rasm_buf_get_sdu_len(buf) + 1)

\* lines 459-460 and 560-561: the fragment would pass the declared SDU length
rasm_buf_overflows(buf, sdu_frag_len) ==
    UGt(rasm_buf_get_reassembled_sdu_len(buf) + sdu_frag_len, rasm_buf_get_sdu_len(buf))

\* cont_ppdu_out freeing the context without counting the drop
cont_ppdu_out_no_drop(R, idx, c, ret) ==
    IF ret # "C_OK"
    THEN rle_receiver_free_context([R EXCEPT !.rle_ctx_man[idx] = c], idx)
    ELSE [R EXCEPT !.rle_ctx_man[idx] = c]

\* lines 473-480: the exit of reassembly_cont_ppdu
cont_ppdu_out(R, idx, c, ret) ==
    IF ret # "C_OK"
    THEN rle_receiver_free_context(
             [R EXCEPT !.rle_ctx_man[idx] = ctx_count_drop(c, 1)], idx)
    ELSE [R EXCEPT !.rle_ctx_man[idx] = c]

reassembly_cont_ppdu(R, sdu, ppdu) ==
    LET idx == ppdu.fid
        ppdu_length == PpduLength(ppdu)
        c1 == [R.rle_ctx_man[idx] EXCEPT !.current_counter = @ + ppdu_length,
                                         !.counter_bytes_in = @ + ppdu_length]
        sdu_frag == ppdu.frag
    IN  IF is_context_free(R, idx)
        THEN RxResult(cont_ppdu_out(R, idx, c1, "C_ERROR"), sdu, "C_ERROR")
        ELSE IF rasm_buf_overflows(c1.buff, Len(sdu_frag))
        THEN RxResult(cont_ppdu_out(R, idx, c1, "C_ERROR"), sdu, "C_ERROR")
        ELSE RxResult(
                 cont_ppdu_out(R, idx,
                     [c1 EXCEPT !.buff.sdu_frag = @ \o sdu_frag], "C_OK"),
                 sdu, "C_OK")

\* lines 527-537: END on a free context counts the drop before jumping to out
end_ppdu_on_free_ctx(R, idx, c) ==
    rle_receiver_free_context(
        [R EXCEPT !.rle_ctx_man[idx] = ctx_count_drop(c, 1)], idx)

\* lines 541-547: the trailer length of the mode recorded by the START PPDU
end_alpdu_trailer_len(c) ==
    IF c.use_crc THEN sizeof_crc_trailer ELSE sizeof_seqno_trailer

\* end_ppdu_out releasing the context on success only
end_ppdu_out_keep_on_error(R, idx, c, ret, lost_packets) ==
    IF ret # "C_REASSEMBLY_OK"
    THEN [R EXCEPT !.rle_ctx_man[idx] = ctx_count_drop(c, lost_packets)]
    ELSE rle_receiver_free_context([R EXCEPT !.rle_ctx_man[idx] = c], idx)

\* end_ppdu_out releasing every context instead of the one of the PPDU
end_ppdu_out_frees_all(R, idx, c, ret, lost_packets) ==
    [R EXCEPT !.free_ctx = {},
              !.rle_ctx_man[idx] =
                  IF ret # "C_REASSEMBLY_OK" THEN ctx_count_drop(c, lost_packets) ELSE c]

\* lines 616-624: the exit of reassembly_end_ppdu
end_ppdu_out(R, idx, c, ret, lost_packets) ==
    rle_receiver_free_context(
        [R EXCEPT !.rle_ctx_man[idx] =
            IF ret # "C_REASSEMBLY_OK" THEN ctx_count_drop(c, lost_packets) ELSE c],
        idx)

\* end_trailer_is_wrong accepting every trailer
end_trailer_is_wrong_never(chk) == FALSE

\* lines 604-608: the verdict on the trailer
end_trailer_is_wrong(chk) == chk.status # 0

reassembly_end_ppdu(R, sdu, ppdu) ==
    LET idx == ppdu.fid
        ppdu_length == PpduLength(ppdu)
        c1 == [R.rle_ctx_man[idx] EXCEPT !.current_counter = @ + ppdu_length,
                                         !.counter_bytes_in = @ + ppdu_length]
        alpdu_frag == ppdu.frag
        rle_trailer_len == end_alpdu_trailer_len(c1)
    IN  IF is_context_free(R, idx)
        THEN LET R1 == end_ppdu_on_free_ctx(R, idx, c1)
             IN  RxResult(end_ppdu_out(R1, idx, R1.rle_ctx_man[idx], "C_ERROR", 0),
                          sdu, "C_ERROR")
        ELSE IF Len(alpdu_frag) < rle_trailer_len
        THEN RxResult(end_ppdu_out(R, idx, c1, "C_ERROR", 0), sdu, "C_ERROR")
        ELSE
        LET sdu_frag == Take(alpdu_frag, Len(alpdu_frag) - rle_trailer_len)
            rle_trailer == Drop(alpdu_frag, Len(alpdu_frag) - rle_trailer_len)
            c2 == [c1 EXCEPT !.buff.sdu_frag = @ \o sdu_frag]
            buf == c2.buff
            plain == [size |-> buf.size, protocol_type |-> buf.protocol_type,
                      buffer |-> buf.sdu_frag]
            vlan == reassembly_insert_vlan_ptype(buf.sdu_frag, buf.size, sdu)
            is_vlan == buf.comp_protocol_type = RLE_PROTO_TYPE_VLAN_COMP_WO_PTYPE_FIELD
            sdu1 == IF is_vlan THEN vlan.sdu ELSE plain
            chk == check_alpdu_trailer(rle_trailer, sdu1, c2, R.is_ctx_seqnum_init[idx])
            c3 == [c2 EXCEPT !.next_seq_nb = chk.next_seq_nb]
            R3 == [R EXCEPT !.is_ctx_seqnum_init[idx] = chk.init]
        IN  IF rasm_buf_overflows(c1.buff, Len(sdu_frag))
            THEN RxResult(end_ppdu_out(R, idx, c1, "C_ERROR", 0), sdu, "C_ERROR")
            ELSE IF UGt(rasm_buf_get_sdu_len(buf), rasm_buf_get_reassembled_sdu_len(buf))
            THEN RxResult(end_ppdu_out(R, idx, c2, "C_ERROR", 0), sdu, "C_ERROR")
            ELSE IF is_vlan /\ ~vlan.ok
            THEN RxResult(end_ppdu_out(R, idx, c2, "C_ERROR", 0), sdu, "C_ERROR")
            ELSE IF end_trailer_is_wrong(chk)
            THEN RxResult(end_ppdu_out(R3, idx, c3, "C_ERROR", chk.lost_packets),
                          sdu1, "C_ERROR")
            ELSE RxResult(
                     end_ppdu_out(R3, idx,
                         [c3 EXCEPT !.counter_bytes_ok = @ + sdu1.size,
                                    !.counter_ok = @ + 1],
                         "C_REASSEMBLY_OK", chk.lost_packets),
                     sdu1, "C_REASSEMBLY_OK")

-----------------------------------------------------------------------------
(* The receiver's calls.  rle_decapsulate hands each PPDU of an FPDU to the *)
(* reassembly function of its kind.                                         *)

RxLastInit ==
    [kind |-> "NONE", fid |-> 0, ret |-> "C_OK", was_free |-> TRUE,
     pre |-> RcvCtxInit, pre_sdu |-> SduInit, ppdu |-> Ppdu("NONE", 0, <<>>, 0, FALSE, FALSE, FALSE)]

reassembly_dispatch(R, sdu, ppdu) ==
    CASE ppdu.kind = "COMP"  -> reassembly_comp_ppdu(R, sdu, ppdu)
      [] ppdu.kind = "START" -> reassembly_start_ppdu(R, sdu, ppdu)
      [] ppdu.kind = "CONT"  -> reassembly_cont_ppdu(R, sdu, ppdu)
      [] ppdu.kind = "END"   -> reassembly_end_ppdu(R, sdu, ppdu)

RxCall(ppdu) ==
    LET res == reassembly_dispatch(rcv, reassembled_sdu, ppdu)
    IN  /\ rcv' = res.rcv
        /\ reassembled_sdu' = res.sdu
        /\ rx_last' = [kind |-> ppdu.kind, fid |-> ppdu.fid, ret |-> res.ret,
                       was_free |-> is_context_free(rcv, ppdu.fid),
                       pre |-> rcv.rle_ctx_man[ppdu.fid],
                       pre_sdu |-> reassembled_sdu, ppdu |-> ppdu]
        /\ delivered' = IF res.ret = "C_REASSEMBLY_OK"
                        THEN Append(delivered, res.sdu) ELSE delivered

-----------------------------------------------------------------------------
(* Configurations *)

Conf(omit, comp, crc, implicit) ==
    [allow_ptype_omission |-> omit, use_compressed_ptype |-> comp,
     allow_alpdu_crc |-> crc, implicit_protocol_type |-> implicit]

ConfUncomp == Conf(FALSE, FALSE, FALSE, RLE_PROTO_TYPE_IPV4_COMP)
ConfComp == Conf(FALSE, TRUE, FALSE, RLE_PROTO_TYPE_IPV4_COMP)
ConfUncompCrc == Conf(FALSE, FALSE, TRUE, RLE_PROTO_TYPE_IPV4_COMP)
ConfCompCrc == Conf(FALSE, TRUE, TRUE, RLE_PROTO_TYPE_IPV4_COMP)
ConfOmitCrc == Conf(TRUE, FALSE, TRUE, RLE_PROTO_TYPE_IPV4_COMP)

\* is_suppressible of test_rle_encap.c: the suppressibility table
is_suppressible(protocol_type, default_ptype) ==
    CASE protocol_type = RLE_PROTO_TYPE_SIGNAL_UNCOMP -> TRUE
      [] protocol_type = RLE_PROTO_TYPE_VLAN_UNCOMP ->
            default_ptype = RLE_PROTO_TYPE_VLAN_COMP
      [] protocol_type = RLE_PROTO_TYPE_VLAN_QINQ_UNCOMP ->
            default_ptype = RLE_PROTO_TYPE_VLAN_QINQ_COMP
      [] protocol_type = RLE_PROTO_TYPE_VLAN_QINQ_LEGACY_UNCOMP ->
            default_ptype = RLE_PROTO_TYPE_VLAN_QINQ_LEGACY_COMP
      [] protocol_type = RLE_PROTO_TYPE_IPV4_UNCOMP ->
            default_ptype \in {RLE_PROTO_TYPE_IPV4_COMP, RLE_PROTO_TYPE_IP_COMP}
      [] protocol_type = RLE_PROTO_TYPE_IPV6_UNCOMP ->
            default_ptype \in {RLE_PROTO_TYPE_IPV6_COMP, RLE_PROTO_TYPE_IP_COMP}
      [] protocol_type = RLE_PROTO_TYPE_ARP_UNCOMP ->
            default_ptype = RLE_PROTO_TYPE_ARP_COMP
      [] OTHER -> FALSE

\* the protocol type is left out of the ALPDU header: a signalling SDU never
\* carries it (conf_uncomp and conf_comp of test_encap_all have omission
\* disabled and the expected header of 0x0082 is empty), any other type when
\* omission is enabled and the implicit type matches
ptype_is_omitted(cnf, ptype) ==
    \/ ptype = RLE_PROTO_TYPE_SIGNAL_UNCOMP
    \/ cnf.allow_ptype_omission /\ is_suppressible(ptype, cnf.implicit_protocol_type)

\* the ALPDU header a transmitter of configuration cnf writes for ptype
AlpduHeader(cnf, ptype) ==
    IF ptype_is_omitted(cnf, ptype)
    THEN <<>>
    ELSE IF cnf.use_compressed_ptype
    THEN IF rle_header_ptype_is_compressible(ptype)
         THEN <<rle_header_ptype_compression(ptype)>>
         ELSE <<RLE_PROTO_TYPE_FALLBACK>> \o PtypeBytes(ptype)
    ELSE PtypeBytes(ptype)

\* struct rle_config: the four options above and the remaining fields
RleConfig(cnf, seq, ppdu_label, payload_label, alpdu_label) ==
    [allow_ptype_omission |-> cnf.allow_ptype_omission,
     use_compressed_ptype |-> cnf.use_compressed_ptype,
     allow_alpdu_crc |-> cnf.allow_alpdu_crc,
     implicit_protocol_type |-> cnf.implicit_protocol_type,
     allow_alpdu_sequence_number |-> seq,
     implicit_ppdu_label_size |-> ppdu_label,
     implicit_payload_label_size |-> payload_label,
     type_0_alpdu_label_size |-> alpdu_label]

\* the implicit protocol types a configuration may name: 0x00 (none), the
\* compressed codes of the table, 0x30 for IPv4 or IPv6; 0x31 is not supported
ValidImplicitPtypes ==
    { 0, RLE_PROTO_TYPE_IPV4_COMP, RLE_PROTO_TYPE_IPV6_COMP, RLE_PROTO_TYPE_VLAN_COMP,
      RLE_PROTO_TYPE_VLAN_QINQ_COMP, RLE_PROTO_TYPE_VLAN_QINQ_LEGACY_COMP,
      RLE_PROTO_TYPE_ARP_COMP, RLE_PROTO_TYPE_SIGNAL_COMP, RLE_PROTO_TYPE_IP_COMP }

\* rle_config_check (rle_conf.c): the configuration is accepted
rle_config_check(cfg) ==
    /\ cfg.implicit_ppdu_label_size <= RLE_MAX_LABEL_SIZE
    /\ cfg.implicit_payload_label_size <= RLE_MAX_LABEL_SIZE
    /\ cfg.type_0_alpdu_label_size <= RLE_MAX_LABEL_SIZE
    /\ cfg.implicit_protocol_type \in ValidImplicitPtypes
    /\ cfg.allow_alpdu_crc \/ cfg.allow_alpdu_sequence_number

-----------------------------------------------------------------------------
(* SpecRx: a receiver given PPDUs in any order *)

IpByte == IP_VERSION_4 * 16 + 5    \* 0x45, the first byte of an IPv4 header (version 4, IHL 5)

RxHdr == AlpduHeader(conf, RLE_PROTO_TYPE_IPV4_UNCOMP)

\* START PPDUs: <<ALPDU fragment, total ALPDU length, use-CRC bit>>
RxStartShapes ==
    { <<RxHdr \o <<IpByte>>, Len(RxHdr) + 1 + 1, FALSE>>,   \* 1-byte SDU, complete
      <<RxHdr \o <<IpByte>>, Len(RxHdr) + 2 + 1, FALSE>>,   \* 2-byte SDU, 1 received
      <<RxHdr \o <<IpByte>>, Len(RxHdr) + 2 + 4, TRUE>>,    \* 2-byte SDU, CRC trailer
      <<RxHdr \o <<IpByte, IpByte>>, Len(RxHdr) + 1 + 1, FALSE>>,  \* more than the total
      <<<<>>, 3, FALSE>>,                                   \* no ALPDU header
      <<RxHdr, Len(RxHdr), FALSE>>,                         \* no room for the trailer
      <<RxHdr, 0, FALSE>> }                                 \* total below the header

RxContFrags == { <<IpByte>>, <<IpByte, IpByte>> }

\* END PPDUs: no trailer, a lone sequence number, one and two SDU bytes with a
\* sequence number, one SDU byte with a wrong and with the right CRC of the
\* SDU of two bytes
RxEndFrags ==
    { <<>>, <<0>>, <<IpByte, 1>>, <<IpByte, IpByte, 3>>, <<IpByte, 1, 2, 3, 4>>,
      <<IpByte>> \o compute_crc32([size |-> 2,
                                   protocol_type |-> RLE_PROTO_TYPE_IPV4_UNCOMP,
                                   buffer |-> <<IpByte, IpByte>>]) }

\* fragment-id 0 is given every PPDU above; fragment-id 1 the START of an
\* SDU of two bytes, its CONT and its END
RxInputs(kind) ==
    CASE kind = "START" ->
            { Ppdu("START", 0, s[1], s[2], s[3], FALSE, FALSE) : s \in RxStartShapes }
            \cup { Ppdu("START", 1, RxHdr \o <<IpByte>>, Len(RxHdr) + 2 + 1,
                        FALSE, FALSE, FALSE) }
      [] kind = "CONT" ->
            { Ppdu("CONT", 0, s, 0, FALSE, FALSE, FALSE) : s \in RxContFrags }
            \cup { Ppdu("CONT", 1, <<IpByte>>, 0, FALSE, FALSE, FALSE) }
      [] kind = "END" ->
            { Ppdu("END", 0, s, 0, FALSE, FALSE, FALSE) : s \in RxEndFrags }
            \cup { Ppdu("END", 1, <<IpByte, 1>>, 0, FALSE, FALSE, FALSE) }
      [] kind = "COMP" ->
            { Ppdu("COMP", 0, s, 0, FALSE, FALSE, FALSE) : s \in {<<>>, RxHdr \o <<IpByte>>} }

\* the producer threads: each makes one call of rle_transmitter_encap_data
Threads == {1, 2}

\* pc is the position of the thread in the call: "idle" before it, "tested"
\* after is_frag_ctx_free, "taken" after set_nonfree_frag_ctx, "done" after
\* the return
ThreadsInit ==
    [t \in Threads |-> [pc |-> "idle", frag_id |-> 0, data_buffer |-> <<>>,
                        ret |-> "C_ERROR"]]

\* the three kinds of module a caller holds: transmitter, receiver,
\* fragmentation buffer
ModuleKinds == {"transmitter", "receiver", "f_buff"}

\* handle is the caller's pointer ("NULL" or "PTR"), heap what was allocated
\* for it ("none", "live", "freed"), crashed the end of the process on a
\* memory fault
ModulesInit ==
    [handle |-> [k \in ModuleKinds |-> "NULL"],
     heap |-> [k \in ModuleKinds |-> "none"],
     crashed |-> FALSE]

InitCommon ==
    /\ modules = ModulesInit
    /\ threads = ThreadsInit
    /\ rcv = RcvInit
    /\ reassembled_sdu = SduInit
    /\ rx_last = RxLastInit
    /\ delivered = <<>>
    /\ wire = <<>>
    /\ steps = 0

\* one call of the receiver on a PPDU of the environment's choice
RxStart ==
    /\ steps < MaxPpdus
    /\ \E ppdu \in RxInputs("START") : RxCall(ppdu)
    /\ steps' = steps + 1
    /\ UNCHANGED <<f_buff, modules, conf, threads, wire, trmt, tx_last, submitted>>

RxCont ==
    /\ steps < MaxPpdus
    /\ \E ppdu \in RxInputs("CONT") : RxCall(ppdu)
    /\ steps' = steps + 1
    /\ UNCHANGED <<f_buff, modules, conf, threads, wire, trmt, tx_last, submitted>>

RxEnd ==
    /\ steps < MaxPpdus
    /\ \E ppdu \in RxInputs("END") : RxCall(ppdu)
    /\ steps' = steps + 1
    /\ UNCHANGED <<f_buff, modules, conf, threads, wire, trmt, tx_last, submitted>>

RxComp ==
    /\ steps < MaxPpdus
    /\ \E ppdu \in RxInputs("COMP") : RxCall(ppdu)
    /\ steps' = steps + 1
    /\ UNCHANGED <<f_buff, modules, conf, threads, wire, trmt, tx_last, submitted>>

-----------------------------------------------------------------------------
(* Transmitter contexts (rle_ctx.c)                                         *)

RLE_PROTO_TYPE_FIELD_SIZE == 2
RLE_PROTO_TYPE_IP == 2048
RLE_LT_IMPLICIT_PROTO_TYPE == 0
RLE_LT_PROTO_SIGNAL == 3

\* flush: every field set to zero or to its invalid value.  pdu stands for
\* the bytes between the zero-copy pointers ptrs->start and ptrs->end;
\* alpdu_pos and trailer are the fragmentation cursor and the ALPDU trailer.
flush(c) ==
    [c EXCEPT !.frag_id = 255, !.next_seq_nb = 255, !.is_fragmented = FALSE,
              !.frag_counter = 0, !.qos_tag = -1, !.use_crc = FALSE,
              !.pdu_length = 0, !.remaining_pdu_length = 0, !.rle_length = 0,
              !.proto_type = 65535, !.label_type = 255]

TxCtxBlank ==
    [frag_id |-> 0, next_seq_nb |-> 0, is_fragmented |-> FALSE, frag_counter |-> 0,
     qos_tag |-> 0, use_crc |-> FALSE, pdu_length |-> 0, remaining_pdu_length |-> 0,
     rle_length |-> 0, proto_type |-> 0, label_type |-> 0,
     nb_frag_pdu |-> 0, counter_dropped |-> 0,
     pdu |-> <<>>, alpdu_pos |-> 0, trailer |-> <<>>]

rle_ctx_init(c) == flush(c)

rle_ctx_set_frag_id(c, val) ==
    IF val > RLE_MAX_FRAG_ID THEN c ELSE [c EXCEPT !.frag_id = val]

rle_ctx_set_seq_nb(c, val) == [c EXCEPT !.next_seq_nb = val]

\* next_seq_nb is a uint8_t
rle_ctx_incr_seq_nb(c) == [c EXCEPT !.next_seq_nb = (@ + 1) % 256]

rle_ctx_set_pdu_length(c, val) ==
    IF val > RLE_MAX_PDU_SIZE THEN c ELSE [c EXCEPT !.pdu_length = val]

rle_ctx_set_remaining_pdu_length(c, val) ==
    IF val > RLE_MAX_PDU_SIZE THEN c ELSE [c EXCEPT !.remaining_pdu_length = val]

rle_ctx_set_rle_length(c, val) ==
    IF val > RLE_MAX_PDU_SIZE THEN c ELSE [c EXCEPT !.rle_length = val]

rle_ctx_set_label_type(c, val) ==
    IF (val # RLE_LT_IMPLICIT_PROTO_TYPE) \/ (val # RLE_LT_PROTO_SIGNAL)
    THEN c ELSE [c EXCEPT !.label_type = val]

rle_ctx_incr_counter_dropped(c) == [c EXCEPT !.counter_dropped = @ + 1]

rle_ctx_get_remaining_alpdu_length(c) == c.remaining_pdu_length

-----------------------------------------------------------------------------
(* Encapsulation (encap.c)                                                  *)

\* the IP header fields read through struct iphdr: version is the high
\* nibble of byte 0, tot_len bytes 2 and 3 in network order
ip_hdr_version(data_buffer) == data_buffer[1] \div 16
ip_hdr_tot_len(data_buffer) == 256 * data_buffer[3] + data_buffer[4]

encap_check_pdu_validity(data_buffer) ==
    IF ip_hdr_tot_len(data_buffer) > RLE_MAX_PDU_SIZE THEN "C_ERROR"
    ELSE IF ip_hdr_version(data_buffer) # IP_VERSION_4
            /\ ip_hdr_version(data_buffer) # IP_VERSION_6 THEN "C_ERROR"
    ELSE "C_OK"

create_header(c, data_buffer, data_length) ==
    LET c1 == [c EXCEPT !.is_fragmented = FALSE, !.frag_counter = 1, !.use_crc = FALSE,
                        !.pdu = data_buffer, !.alpdu_pos = 0, !.trailer = <<>>]
        c2 == rle_ctx_set_pdu_length(c1, data_length)
        c3 == rle_ctx_set_remaining_pdu_length(c2, data_length)
        c4 == rle_ctx_set_rle_length(c3, data_length + RLE_PROTO_TYPE_FIELD_SIZE)
        c5 == [c4 EXCEPT !.proto_type = RLE_PROTO_TYPE_IP]
        c6 == rle_ctx_set_label_type(c5, RLE_LT_IMPLICIT_PROTO_TYPE)
    IN  [ctx |-> [c6 EXCEPT !.qos_tag = 0], ret |-> "C_OK"]

encap_encapsulate_pdu(c, data_buffer, data_length) ==
    IF encap_check_pdu_validity(data_buffer) = "C_ERROR"
    THEN [ctx |-> c, ret |-> "C_ERROR"]
    ELSE create_header(c, data_buffer, data_length)

-----------------------------------------------------------------------------
(* Transmitter (rle_transmitter.c).  free_ctx is the 8-bit bitmap.          *)

is_frag_ctx_free(T, frag_id) == BitOf(T.free_ctx, frag_id) = 1

set_nonfree_frag_ctx(T, index) ==
    [T EXCEPT !.free_ctx = IF BitOf(@, index) = 1 THEN @ ELSE @ + 2 ^ index]

\* _this->free_ctx = (0 << index) & 0xff
set_free_frag_ctx(T, index) == [T EXCEPT !.free_ctx = 0]

set_free_all_frag_ctx(T) == [T EXCEPT !.free_ctx = 0]

\* init of rle_transmitter_module_new
TrmtInit ==
    set_free_all_frag_ctx(
        [free_ctx |-> 0,
         rle_ctx_man |-> [i \in FragIds |->
             rle_ctx_set_seq_nb(rle_ctx_set_frag_id(rle_ctx_init(TxCtxBlank), i), 0)]])

\* rle_frag_buf_new: a buffer allocated and not yet initialised
FragBufInit == [state |-> "allocated", ctx |-> TrmtInit.rle_ctx_man[0]]

TxResult(T, ret, ppdu) == [trmt |-> T, ret |-> ret, ppdu |-> ppdu]

NoPpdu == Ppdu("NONE", 0, <<>>, 0, FALSE, FALSE, FALSE)

\* rle_transmitter_encap_data once the context is taken: the encapsulation
\* and its error path
encap_data_in_taken_ctx(T1, data_buffer, data_length, protocol_type, frag_id) ==
    LET e == encap_encapsulate_pdu(T1.rle_ctx_man[frag_id], data_buffer, data_length)
    IN  IF e.ret = "C_ERROR"
        THEN TxResult(
                 set_free_frag_ctx(
                     [T1 EXCEPT !.rle_ctx_man[frag_id] =
                                    rle_ctx_incr_counter_dropped(e.ctx)],
                     frag_id),
                 "C_ERROR", NoPpdu)
        ELSE TxResult([T1 EXCEPT !.rle_ctx_man[frag_id] = e.ctx], "C_OK", NoPpdu)

rle_transmitter_encap_data(T, data_buffer, data_length, protocol_type, frag_id) ==
    IF is_frag_ctx_free(T, frag_id) THEN TxResult(T, "C_ERROR", NoPpdu)
    ELSE encap_data_in_taken_ctx(set_nonfree_frag_ctx(T, frag_id),
                                 data_buffer, data_length, protocol_type, frag_id)

rle_transmitter_free_context(T, fragment_id) == set_free_frag_ctx(T, fragment_id)

rle_transmitter_get_queue_size(T, fragment_id) ==
    rle_ctx_get_remaining_alpdu_length(T.rle_ctx_man[fragment_id])

rle_transmitter_get_queue_state(T, fragment_id) ==
    rle_ctx_get_remaining_alpdu_length(T.rle_ctx_man[fragment_id]) = 0

-----------------------------------------------------------------------------
(* Fragmentation (fragmentation.c): one PPDU of at most burst_length bytes. *)
(* frag_counter is 0 while nothing was encapsulated, 1 after encapsulation  *)
(* and one more for each PPDU emitted.                                      *)

MinBurstStart == 5
MinBurstContEnd == 3

TxAlpdu(c, cnf) == AlpduHeader(cnf, c.proto_type) \o c.pdu

\* an encapsulated ALPDU has bytes, or its trailer, left to emit
frag_is_pending(c, cnf) ==
    /\ c.frag_counter >= 1
    /\ \/ c.frag_counter = 1
       \/ c.alpdu_pos < Len(TxAlpdu(c, cnf))
       \/ c.trailer # <<>>

\* the PDU bytes still to emit once the cursor stands at pos
frag_remaining_pdu(c, cnf, pos) ==
    LET left == Len(TxAlpdu(c, cnf)) - pos
    IN  IF left > c.pdu_length THEN c.pdu_length ELSE left

FragResult(c, ret, ppdu) == [ctx |-> c, ret |-> ret, ppdu |-> ppdu]

\* an END PPDU that carries the trailer only when the rest of the ALPDU
\* leaves room for all of it, or else as much of it as fits
frag_fits_end_without_trailer(left, trailer, burst_length) == left <= burst_length - 2

\* the rest of the ALPDU and its whole trailer fit behind the 2-byte header
\* of an END PPDU
frag_fits_end(left, trailer, burst_length) == left + Len(trailer) <= burst_length - 2

fragmentation_fragment_pdu(c, cnf, burst_length, protocol_type) ==
    LET alpdu == TxAlpdu(c, cnf)
        alen == Len(alpdu)
        supp == ptype_is_omitted(cnf, c.proto_type)
        sig == c.proto_type = RLE_PROTO_TYPE_SIGNAL_UNCOMP
    IN  IF ~frag_is_pending(c, cnf) THEN FragResult(c, "C_ERROR", NoPpdu)
        ELSE IF c.frag_counter = 1
        THEN \* first PPDU of the ALPDU: COMP if it fits, else START
             IF burst_length >= alen + 2
             THEN FragResult([c EXCEPT !.frag_counter = 2, !.nb_frag_pdu = 1,
                                       !.alpdu_pos = alen,
                                       !.remaining_pdu_length = 0],
                             "C_OK",
                             Ppdu("COMP", 0, alpdu, 0, FALSE, supp, sig))
             ELSE IF burst_length < MinBurstStart
             THEN FragResult(c, "C_ERROR_FRAG_SIZE", NoPpdu)
             ELSE LET n == burst_length - 4
                      trailer == IF cnf.allow_alpdu_crc
                                 THEN compute_crc32([size |-> c.pdu_length,
                                                     protocol_type |-> c.proto_type,
                                                     buffer |-> c.pdu])
                                 ELSE <<c.next_seq_nb % RLE_MAX_SEQ_NO>>
                      c1 == [c EXCEPT !.frag_counter = 2, !.nb_frag_pdu = 1,
                                      !.is_fragmented = TRUE,
                                      !.use_crc = cnf.allow_alpdu_crc,
                                      !.alpdu_pos = n, !.trailer = trailer,
                                      !.remaining_pdu_length =
                                          frag_remaining_pdu(c, cnf, n)]
                  IN  FragResult(
                          IF cnf.allow_alpdu_crc THEN c1
                          ELSE [c1 EXCEPT !.next_seq_nb = (@ + 1) % RLE_MAX_SEQ_NO],
                          "C_OK",
                          Ppdu("START", c.frag_id, Take(alpdu, n),
                               alen + Len(trailer), cnf.allow_alpdu_crc, supp, sig))
        ELSE LET left == alen - c.alpdu_pos
                 rest == Drop(alpdu, c.alpdu_pos)
             IN  IF burst_length < MinBurstContEnd
                 THEN FragResult(c, "C_ERROR_FRAG_SIZE", NoPpdu)
                 ELSE IF frag_fits_end(left, c.trailer, burst_length)
                 THEN FragResult([c EXCEPT !.frag_counter = @ + 1,
                                           !.nb_frag_pdu = @ + 1,
                                           !.alpdu_pos = alen, !.trailer = <<>>,
                                           !.remaining_pdu_length = 0],
                                 "C_OK",
                                 Ppdu("END", c.frag_id, rest \o c.trailer,
                                      0, FALSE, FALSE, FALSE))
                 ELSE LET n == IF left < burst_length - 2 THEN left
                               ELSE burst_length - 2
                      IN  FragResult(
                              [c EXCEPT !.frag_counter = @ + 1,
                                        !.nb_frag_pdu = @ + 1,
                                        !.alpdu_pos = @ + n,
                                        !.remaining_pdu_length =
                                            frag_remaining_pdu(c, cnf, c.alpdu_pos + n)],
                              "C_OK",
                              Ppdu("CONT", c.frag_id, Take(rest, n),
                                   0, FALSE, FALSE, FALSE))

\* get_packet without the test of the number of fragments
rle_transmitter_get_packet_no_cap(T, burst_length, fragment_id, protocol_type) ==
    LET f == fragmentation_fragment_pdu(T.rle_ctx_man[fragment_id], conf,
                                        burst_length, protocol_type)
        T1 == [T EXCEPT !.rle_ctx_man[fragment_id] = f.ctx]
    IN  IF f.ret # "C_OK"
        THEN TxResult(
                 set_free_frag_ctx(
                     [T1 EXCEPT !.rle_ctx_man[fragment_id] =
                                    rle_ctx_incr_counter_dropped(@)],
                     fragment_id),
                 f.ret, NoPpdu)
        ELSE TxResult(T1, f.ret, f.ppdu)

\* get_packet handing out the PPDU without the context keeping the cursor
rle_transmitter_get_packet_keeps_cursor(T, burst_length, fragment_id, protocol_type) ==
    LET f == fragmentation_fragment_pdu(T.rle_ctx_man[fragment_id], conf,
                                        burst_length, protocol_type)
    IN  TxResult(T, f.ret, f.ppdu)

rle_transmitter_get_packet(T, burst_length, fragment_id, protocol_type) ==
    LET c == T.rle_ctx_man[fragment_id]
        number_frags == c.nb_frag_pdu
        f == fragmentation_fragment_pdu(c, conf, burst_length, protocol_type)
        ret == IF number_frags >= RLE_MAX_SEQ_NO THEN "C_ERROR_TOO_MUCH_FRAG" ELSE f.ret
        T1 == IF number_frags >= RLE_MAX_SEQ_NO THEN T
              ELSE [T EXCEPT !.rle_ctx_man[fragment_id] = f.ctx]
    IN  IF ret # "C_OK"
        THEN TxResult(
                 set_free_frag_ctx(
                     [T1 EXCEPT !.rle_ctx_man[fragment_id] =
                                    rle_ctx_incr_counter_dropped(@)],
                     fragment_id),
                 ret, NoPpdu)
        ELSE TxResult(T1, ret, f.ppdu)

-----------------------------------------------------------------------------
(* Spec: a transmitter and a receiver of the same configuration joined by   *)
(* a wire that keeps the PPDUs in order; the receiver takes each PPDU off   *)
(* the wire before the transmitter is called again.                         *)

\* the record of a transmitter call: the operation, its fragment-id and burst
\* length arguments, the status returned, the PPDU written to the burst
\* buffer, and the transmitter as it was before the call
TxCall(op, fid, burst, ret, ppdu, pre) ==
    [op |-> op, fid |-> fid, burst |-> burst, ret |-> ret, ppdu |-> ppdu, pre |-> pre]

TxLastInit == TxCall("none", 0, 0, "C_OK", NoPpdu, TrmtInit)

\* SDUs offered to the transmitter, each with its protocol type: an IPv4 and
\* an IPv6 packet with a true total-length field, a packet of zero bytes (the
\* payload of the encapsulation tests), an IPv4 packet announcing 4096 bytes
TxSdus ==
    { <<<<69, 0, 0, 4>>, RLE_PROTO_TYPE_IPV4_UNCOMP>>,
      <<<<96, 0, 0, 5, 1>>, RLE_PROTO_TYPE_IPV6_UNCOMP>>,
      <<<<0, 0, 0, 0>>, RLE_PROTO_TYPE_IPV4_UNCOMP>>,
      <<<<69, 0, 16, 0>>, RLE_PROTO_TYPE_IPV4_UNCOMP>> }

\* burst sizes: too small for any PPDU, room for a fragment, room for all
TxBursts == { 2, 6, 12 }

TxConfs == { ConfUncomp, ConfComp, ConfCompCrc }

Init ==
    /\ conf \in TxConfs
    /\ trmt = TrmtInit
    /\ tx_last = TxLastInit
    /\ submitted = <<>>
    /\ f_buff = FragBufInit
    /\ InitCommon

Encap ==
    /\ steps < MaxCalls
    /\ wire = <<>>
    /\ \E f \in UsedFids, s \in TxSdus :
          LET data == s[1]
              ptype == s[2]
              res == rle_transmitter_encap_data(trmt, data, Len(data), ptype, f)
          IN  /\ trmt' = res.trmt
              /\ tx_last' = TxCall("encap", f, 0, res.ret, NoPpdu, trmt)
              /\ submitted' = Append(submitted,
                                     [size |-> Len(data), protocol_type |-> ptype,
                                      buffer |-> data])
    /\ steps' = steps + 1
    /\ UNCHANGED <<f_buff, modules, conf, threads, wire, rxvars>>

GetPacket ==
    /\ steps < MaxCalls
    /\ wire = <<>>
    /\ \E f \in UsedFids, burst \in TxBursts :
          LET res == rle_transmitter_get_packet(trmt, burst, f,
                                                trmt.rle_ctx_man[f].proto_type)
          IN  /\ trmt' = res.trmt
              /\ tx_last' = TxCall("get_packet", f, burst, res.ret, res.ppdu, trmt)
              /\ wire' = IF res.ret = "C_OK" THEN Append(wire, res.ppdu) ELSE wire
    /\ steps' = steps + 1
    /\ UNCHANGED <<f_buff, modules, conf, threads, submitted, rxvars>>

FreeContext ==
    /\ steps < MaxCalls
    /\ wire = <<>>
    /\ \E f \in UsedFids :
          /\ trmt' = rle_transmitter_free_context(trmt, f)
          /\ tx_last' = TxCall("free_context", f, 0, "C_OK", NoPpdu, trmt)
    /\ steps' = steps + 1
    /\ UNCHANGED <<f_buff, modules, conf, threads, wire, submitted, rxvars>>

\* the receiver takes the next PPDU off the wire
Decap ==
    /\ wire # <<>>
    /\ RxCall(Head(wire))
    /\ wire' = Tail(wire)
    /\ UNCHANGED <<f_buff, modules, conf, threads, txvars, steps>>

Next == Encap \/ GetPacket \/ FreeContext \/ Decap

Spec == Init /\ [][Next]_vars

-----------------------------------------------------------------------------
(* SpecRx *)

RxConfs == { ConfUncomp, ConfComp }

InitRx ==
    /\ conf \in RxConfs
    /\ trmt = TrmtInit
    /\ tx_last = TxLastInit
    /\ submitted = <<>>
    /\ f_buff = FragBufInit
    /\ InitCommon

NextRx == RxStart \/ RxCont \/ RxEnd \/ RxComp

SpecRx == InitRx /\ [][NextRx]_vars

-----------------------------------------------------------------------------
(* SpecLink: a receiver fed, on fragment-id 0, with ALPDUs cut into a START, *)
(* a CONT and an END PPDU.  The sender chooses the sequence number of each  *)
(* ALPDU (a gap stands for ALPDUs lost on the way) and the link may invert  *)
(* one bit of an ALPDU protected by a CRC.  submitted records what was      *)
(* sent: the SDU, its sequence number, and the byte whose bit was inverted  *)
(* (0 if none).                                                             *)

LinkSdu == <<IpByte, 7>>

LinkConfs == { ConfUncomp, ConfUncompCrc, ConfCompCrc }

\* the CRC trailer of the SDU
LinkCrc ==
    compute_crc32([size |-> Len(LinkSdu), protocol_type |-> RLE_PROTO_TYPE_IPV4_UNCOMP,
                   buffer |-> LinkSdu])

\* the ALPDU: header, SDU and trailer
LinkAlpdu(cnf, seq) ==
    AlpduHeader(cnf, RLE_PROTO_TYPE_IPV4_UNCOMP) \o LinkSdu \o
    (IF cnf.allow_alpdu_crc THEN LinkCrc ELSE <<seq>>)

\* the PPDUs of an ALPDU: the header and one SDU byte, one byte, the rest
LinkPpdus(cnf, alpdu) ==
    LET n == Len(AlpduHeader(cnf, RLE_PROTO_TYPE_IPV4_UNCOMP)) + 1
    IN  << Ppdu("START", 0, Take(alpdu, n), Len(alpdu), cnf.allow_alpdu_crc, FALSE, FALSE),
           Ppdu("CONT", 0, SubSeq(alpdu, n + 1, n + 1), 0, FALSE, FALSE, FALSE),
           Ppdu("END", 0, Drop(alpdu, n + 1), 0, FALSE, FALSE, FALSE) >>

LinkFlipped == { i \in 1 .. Len(submitted) : submitted[i].flip_at > 0 }

LinkSend ==
    /\ steps < MaxAlpdus
    /\ wire = <<>>
    /\ \E seq \in 0 .. (RLE_MAX_SEQ_NO - 1), i \in 0 .. 8, k \in 0 .. 7 :
          LET alpdu == LinkAlpdu(conf, seq)
          IN  /\ i <= Len(alpdu)
              /\ conf.allow_alpdu_crc => seq = 0
              /\ ~conf.allow_alpdu_crc => i = 0
              /\ i = 0 => k = 0
              /\ i > 0 => Cardinality(LinkFlipped) < MaxFlips
              /\ wire' = LinkPpdus(conf, IF i = 0 THEN alpdu ELSE FlipBitAt(alpdu, i, k))
              /\ submitted' = Append(submitted,
                                     [size |-> Len(LinkSdu),
                                      protocol_type |-> RLE_PROTO_TYPE_IPV4_UNCOMP,
                                      buffer |-> LinkSdu, seq |-> seq, flip_at |-> i])
    /\ steps' = steps + 1
    /\ UNCHANGED <<f_buff, modules, conf, threads, trmt, tx_last, rxvars>>

InitLink ==
    /\ conf \in LinkConfs
    /\ trmt = TrmtInit
    /\ tx_last = TxLastInit
    /\ submitted = <<>>
    /\ f_buff = FragBufInit
    /\ InitCommon

NextLink == LinkSend \/ Decap

SpecLink == InitLink /\ [][NextLink]_vars

-----------------------------------------------------------------------------
(* SpecFrag: a transmitter whose fragment-id 0 is given SDUs and bursts.    *)
(* wire keeps the PPDUs emitted since the last accepted encapsulation (no   *)
(* receiver takes them) and submitted the SDUs accepted.                    *)

\* an IPv4 packet of n bytes (n >= 4) whose total-length field is n
IpSdu(n) ==
    [i \in 1 .. n |-> CASE i = 1 -> IpByte
                       [] i = 3 -> n \div 256
                       [] i = 4 -> n % 256
                       [] OTHER -> i % 256]

\* an SDU that fits a burst and one that needs more than RLE_MAX_SEQ_NO
\* PPDUs when every burst has 5 bytes
FragSdus == { IpSdu(4), IpSdu(3 * RLE_MAX_SEQ_NO) }

\* the smallest burst of a START, a larger one, and one with room for the
\* largest ALPDU above
FragBursts == { MinBurstStart, 8, 3 * RLE_MAX_SEQ_NO + 6 }

FragEncap ==
    /\ steps < MaxBursts
    /\ \E data \in FragSdus :
          LET res == rle_transmitter_encap_data(trmt, data, Len(data),
                                                RLE_PROTO_TYPE_IPV4_UNCOMP, 0)
          IN  /\ trmt' = res.trmt
              /\ tx_last' = TxCall("encap", 0, 0, res.ret, NoPpdu, trmt)
              /\ submitted' = IF res.ret = "C_OK"
                              THEN Append(submitted,
                                          [size |-> Len(data),
                                           protocol_type |-> RLE_PROTO_TYPE_IPV4_UNCOMP,
                                           buffer |-> data])
                              ELSE submitted
              /\ wire' = IF res.ret = "C_OK" THEN <<>> ELSE wire
    /\ steps' = steps + 1
    /\ UNCHANGED <<f_buff, modules, conf, threads, rxvars>>

FragGetPacket ==
    /\ steps < MaxBursts
    /\ \E burst \in FragBursts :
          LET res == rle_transmitter_get_packet(trmt, burst, 0,
                                                trmt.rle_ctx_man[0].proto_type)
          IN  /\ trmt' = res.trmt
              /\ tx_last' = TxCall("get_packet", 0, burst, res.ret, res.ppdu, trmt)
              /\ wire' = IF res.ret = "C_OK" THEN Append(wire, res.ppdu) ELSE wire
    /\ steps' = steps + 1
    /\ UNCHANGED <<f_buff, modules, conf, threads, submitted, rxvars>>

NextFrag == FragEncap \/ FragGetPacket

SpecFrag == Init /\ [][NextFrag]_vars

-----------------------------------------------------------------------------
(* SpecBurst: a transmitter whose fragment-id 0 is given short SDUs and     *)
(* bursts down to 2 bytes, below the smallest PPDU.  The PPDUs are not kept *)
(* on the wire: tx_last holds the last one and the transmitter before it.   *)

BurstSdus == { IpSdu(4), IpSdu(7) }

\* two bursts too small for any PPDU or for a START, the smallest burst of a
\* START, and a larger one
BurstBursts == { 2, MinBurstContEnd, MinBurstStart, 8 }

BurstEncap ==
    /\ steps < MaxBursts
    /\ \E data \in BurstSdus :
          LET res == rle_transmitter_encap_data(trmt, data, Len(data),
                                                RLE_PROTO_TYPE_IPV4_UNCOMP, 0)
          IN  /\ trmt' = res.trmt
              /\ tx_last' = TxCall("encap", 0, 0, res.ret, NoPpdu, trmt)
    /\ steps' = steps + 1
    /\ UNCHANGED <<f_buff, modules, conf, threads, wire, submitted, rxvars>>

BurstGetPacket ==
    /\ steps < MaxBursts
    /\ \E burst \in BurstBursts :
          LET res == rle_transmitter_get_packet(trmt, burst, 0,
                                                trmt.rle_ctx_man[0].proto_type)
          IN  /\ trmt' = res.trmt
              /\ tx_last' = TxCall("get_packet", 0, burst, res.ret, res.ppdu, trmt)
    /\ steps' = steps + 1
    /\ UNCHANGED <<f_buff, modules, conf, threads, wire, submitted, rxvars>>

NextBurst == BurstEncap \/ BurstGetPacket

SpecBurst == Init /\ [][NextBurst]_vars

-----------------------------------------------------------------------------
(* SpecVlan: a receiver with compressed protocol types given, on            *)
(* fragment-id 0, Ethernet/VLAN frames whose VLAN protocol type field was   *)
(* removed by the sender (compressed type 0x31), whole in a COMP PPDU or    *)
(* cut into a START and an END PPDU.                                        *)

\* a frame of len bytes: the outer EtherType in bytes 12..13, the first byte
\* of the VLAN payload at offset 16, every other byte its own position
VlanFrame(len, eth_type, nibble) ==
    [i \in 1..len |-> CASE i = 13 -> eth_type \div 256
                        [] i = 14 -> eth_type % 256
                        [] i = 17 -> nibble * 16 + 5
                        [] OTHER -> i]

\* the shortest frame with IPv4, a longer one with IPv6, a frame one byte
\* too short, a frame that is not VLAN, a frame whose payload is not IP
VlanFrames ==
    { VlanFrame(17, RLE_PROTO_TYPE_VLAN_UNCOMP, IP_VERSION_4),
      VlanFrame(19, RLE_PROTO_TYPE_VLAN_UNCOMP, IP_VERSION_6),
      VlanFrame(16, RLE_PROTO_TYPE_VLAN_UNCOMP, IP_VERSION_4),
      VlanFrame(17, RLE_PROTO_TYPE_IPV4_UNCOMP, IP_VERSION_4),
      VlanFrame(17, RLE_PROTO_TYPE_VLAN_UNCOMP, 5) }

\* the ALPDU of a frame: the compressed protocol type, then the frame
VlanAlpdu(frame) == <<RLE_PROTO_TYPE_VLAN_COMP_WO_PTYPE_FIELD>> \o frame

VlanComp ==
    /\ steps < MaxVlanPpdus
    /\ \E frame \in VlanFrames :
           RxCall(Ppdu("COMP", 0, VlanAlpdu(frame), 0, FALSE, FALSE, FALSE))
    /\ steps' = steps + 1
    /\ UNCHANGED <<f_buff, modules, conf, threads, wire, trmt, tx_last, submitted>>

VlanStart ==
    /\ steps < MaxVlanPpdus
    /\ \E frame \in VlanFrames :
           RxCall(Ppdu("START", 0, Take(VlanAlpdu(frame), VlanCut),
                       Len(VlanAlpdu(frame)) + sizeof_seqno_trailer,
                       FALSE, FALSE, FALSE))
    /\ steps' = steps + 1
    /\ UNCHANGED <<f_buff, modules, conf, threads, wire, trmt, tx_last, submitted>>

VlanEnd ==
    /\ steps < MaxVlanPpdus
    /\ \E frame \in VlanFrames, seq \in {0, 1} :
           RxCall(Ppdu("END", 0, Drop(VlanAlpdu(frame), VlanCut) \o <<seq>>, 0,
                       FALSE, FALSE, FALSE))
    /\ steps' = steps + 1
    /\ UNCHANGED <<f_buff, modules, conf, threads, wire, trmt, tx_last, submitted>>

InitVlan ==
    /\ conf = ConfComp
    /\ trmt = TrmtInit
    /\ tx_last = TxLastInit
    /\ submitted = <<>>
    /\ f_buff = FragBufInit
    /\ InitCommon

NextVlan == VlanComp \/ VlanStart \/ VlanEnd

SpecVlan == InitVlan /\ [][NextVlan]_vars

-----------------------------------------------------------------------------
(* SpecPack: PPDUs are packed one after the other into an FPDU of FpduLen   *)
(* bytes, the rest of the FPDU is padded with zeros, and the FPDU is        *)
(* unpacked.  wire holds the PPDUs packed so far, submitted the FPDU,       *)
(* delivered the slices found by the last unpacking.                        *)

\* the three low bits of the second header byte: the fragment-id of START,
\* CONT and END, the label type and the protocol-type-suppressed bit of COMP
PpduHdrLowBits(p) ==
    IF p.kind = "COMP"
    THEN (IF p.sig THEN 6 ELSE 0) + (IF p.supp THEN 1 ELSE 0)
    ELSE p.fid

\* the bytes of a PPDU: start and end bits, 11 bits of length, 3 low bits,
\* big-endian; START adds 12 bits of total length, the label type, the
\* protocol-type-suppressed bit and the use-CRC bit
PpduBytes(p) ==
    LET S == IF p.kind \in {"COMP", "START"} THEN 1 ELSE 0
        E == IF p.kind \in {"COMP", "END"} THEN 1 ELSE 0
        l == Len(p.frag)
        hdr == << S * 128 + E * 64 + l \div 32, (l % 32) * 8 + PpduHdrLowBits(p) >>
        more == IF p.kind = "START"
                THEN << p.total \div 16,
                        (p.total % 16) * 16 + (IF p.sig THEN 12 ELSE 0)
                            + (IF p.supp THEN 2 ELSE 0) + (IF p.crc THEN 1 ELSE 0) >>
                ELSE <<>>
    IN  hdr \o more \o p.frag

Zeros(n) == [i \in 1..n |-> 0]

RECURSIVE rle_pack_all(_)
rle_pack_all(ppdus) ==
    IF ppdus = <<>> THEN <<>>
    ELSE PpduBytes(Head(ppdus)) \o rle_pack_all(Tail(ppdus))

\* the FPDU: the PPDUs from offset 0, then the padding
rle_pack(ppdus, fpdu_len) ==
    rle_pack_all(ppdus) \o Zeros(fpdu_len - Len(rle_pack_all(ppdus)))

\* the slices of the FPDU from offset (counted from 0): the scan stops at the
\* end of the FPDU, at a zero byte where a PPDU header is expected, and at a
\* header whose length field passes the end of the FPDU
RECURSIVE rle_unpack_from(_, _)
rle_unpack_from(fpdu, offset) ==
    IF offset + 2 > Len(fpdu) THEN <<>>
    ELSE IF fpdu[offset + 1] = 0 THEN <<>>
    ELSE LET S == fpdu[offset + 1] \div 128
             E == (fpdu[offset + 1] \div 64) % 2
             l == (fpdu[offset + 1] % 64) * 32 + fpdu[offset + 2] \div 8
             size == (IF S = 1 /\ E = 0 THEN 4 ELSE 2) + l
         IN  IF offset + size > Len(fpdu) THEN <<>>
             ELSE <<SubSeq(fpdu, offset + 1, offset + size)>>
                  \o rle_unpack_from(fpdu, offset + size)

rle_unpack(fpdu) == rle_unpack_from(fpdu, 0)

\* a COMP, a START, a CONT of one byte, a CONT of 32 bytes and an END PPDU;
\* the payloads hold zero bytes
PackPpdus ==
    { Ppdu("COMP", 0, <<0, 0>>, 0, FALSE, FALSE, FALSE),
      Ppdu("START", 1, <<0, 0>>, 40, FALSE, FALSE, FALSE),
      Ppdu("CONT", 1, <<0>>, 0, FALSE, FALSE, FALSE),
      Ppdu("CONT", 2, Zeros(32), 0, FALSE, FALSE, FALSE),
      Ppdu("END", 1, <<0, 1>>, 0, FALSE, FALSE, FALSE) }

PackPpdu ==
    /\ Len(wire) < MaxPacked
    /\ \E p \in PackPpdus :
           /\ Len(rle_pack_all(wire)) + Len(PpduBytes(p)) <= FpduLen
           /\ wire' = Append(wire, p)
           /\ submitted' = rle_pack(wire', FpduLen)
    /\ delivered' = <<>>
    /\ rx_last' = RxLastInit
    /\ UNCHANGED <<f_buff, modules, conf, threads, trmt, tx_last, rcv, reassembled_sdu, steps>>

UnpackFpdu ==
    /\ rx_last.kind = "NONE"
    /\ delivered' = rle_unpack(submitted)
    /\ rx_last' = [RxLastInit EXCEPT !.kind = "UNPACK"]
    /\ UNCHANGED <<f_buff, modules, conf, threads, trmt, tx_last, rcv, reassembled_sdu, steps,
                   wire, submitted>>

InitPack ==
    /\ conf = ConfComp
    /\ trmt = TrmtInit
    /\ tx_last = TxLastInit
    /\ submitted = rle_pack(<<>>, FpduLen)
    /\ f_buff = FragBufInit
    /\ InitCommon

NextPack == PackPpdu \/ UnpackFpdu

SpecPack == InitPack /\ [][NextPack]_vars

-----------------------------------------------------------------------------
(* SpecConc: two producer threads, each calling rle_transmitter_encap_data  *)
(* once on one transmitter.  A step is what a thread does between two       *)
(* releases of ctx_mutex: the test of the bit (is_frag_ctx_free locks,      *)
(* reads and unlocks), the setting of the bit (set_nonfree_frag_ctx locks,  *)
(* writes and unlocks), the encapsulation with its return.  Two threads     *)
(* that both took one context write it without any lock; the context is     *)
(* then left as the thread that encapsulated last wrote it, and the status  *)
(* each call returns depends on its own SDU only.                           *)

\* line 170: the bit is read; a set bit returns C_ERROR at once
ThreadTest ==
    /\ \E t \in Threads, f \in UsedFids, s \in TxSdus :
          /\ threads[t].pc = "idle"
          /\ threads' = [threads EXCEPT ![t] =
                 [pc |-> IF is_frag_ctx_free(trmt, f) THEN "done" ELSE "tested",
                  frag_id |-> f, data_buffer |-> s[1], ret |-> "C_ERROR"]]
    /\ UNCHANGED <<f_buff, modules, conf, trmt, wire, tx_last, submitted, rxvars, steps>>

\* line 178: the bit is set
ThreadTake ==
    /\ \E t \in Threads :
          /\ threads[t].pc = "tested"
          /\ trmt' = set_nonfree_frag_ctx(trmt, threads[t].frag_id)
          /\ threads' = [threads EXCEPT ![t].pc = "taken"]
    /\ UNCHANGED <<f_buff, modules, conf, wire, tx_last, submitted, rxvars, steps>>

\* lines 181 to 207: the encapsulation, its error path, the return
ThreadEncap ==
    /\ \E t \in Threads :
          LET th == threads[t]
              res == encap_data_in_taken_ctx(trmt, th.data_buffer, Len(th.data_buffer),
                                             RLE_PROTO_TYPE_IPV4_UNCOMP, th.frag_id)
          IN  /\ th.pc = "taken"
              /\ trmt' = res.trmt
              /\ threads' = [threads EXCEPT ![t].pc = "done", ![t].ret = res.ret]
    /\ UNCHANGED <<f_buff, modules, conf, wire, tx_last, submitted, rxvars, steps>>

NextConc == ThreadTest \/ ThreadTake \/ ThreadEncap

SpecConc == Init /\ [][NextConc]_vars

-----------------------------------------------------------------------------
(* SpecEncap: modules are created and SDUs of every protocol type, of the   *)
(* largest size and beyond, or no buffer or no transmitter at all, are      *)
(* given to the encapsulation, under valid and invalid configurations.      *)

\* the configurations of test_encap_all: uncompressed, compressed, omitted
\* (implicit IPv4), omitted IP (0x30), omission with no implicit type
EncapGoodConfs ==
    { RleConfig(Conf(FALSE, FALSE, FALSE, 0), TRUE, 0, 0, 0),
      RleConfig(Conf(FALSE, TRUE, FALSE, 0), TRUE, 0, 0, 0),
      RleConfig(Conf(TRUE, FALSE, FALSE, RLE_PROTO_TYPE_IPV4_COMP), TRUE, 0, 0, 0),
      RleConfig(Conf(TRUE, FALSE, FALSE, RLE_PROTO_TYPE_IP_COMP), TRUE, 0, 0, 0),
      RleConfig(Conf(TRUE, FALSE, FALSE, 0), TRUE, 0, 0, 0) }

\* bad_conf of test_rle_allocation_transmitter, the configuration of
\* test_encap_inv_config, and one configuration for each single defect
EncapBadConfs ==
    { RleConfig(Conf(FALSE, FALSE, FALSE, RLE_PROTO_TYPE_VLAN_COMP_WO_PTYPE_FIELD),
                TRUE, RLE_MAX_LABEL_SIZE + 1, 0, 0),
      RleConfig(Conf(FALSE, FALSE, FALSE, RLE_PROTO_TYPE_VLAN_COMP_WO_PTYPE_FIELD),
                TRUE, 0, 0, 0),
      RleConfig(Conf(FALSE, FALSE, FALSE, 52), TRUE, 0, 0, 0),
      RleConfig(Conf(FALSE, FALSE, FALSE, 0), TRUE, RLE_MAX_LABEL_SIZE + 1, 0, 0),
      RleConfig(Conf(FALSE, FALSE, FALSE, 0), TRUE, 0, RLE_MAX_LABEL_SIZE + 1, 0),
      RleConfig(Conf(FALSE, FALSE, FALSE, 0), TRUE, 0, 0, RLE_MAX_LABEL_SIZE + 1),
      RleConfig(Conf(FALSE, FALSE, FALSE, 0), FALSE, 0, 0, 0) }

EncapConfs == EncapGoodConfs \cup EncapBadConfs

\* an SDU one byte too long whose IP header announces 100 bytes
OversizedSdu == [IpSdu(RLE_MAX_PDU_SIZE + 1) EXCEPT ![3] = 0, ![4] = 100]

\* an SDU with a protocol type
EncapSdu(s, p) == [this_is_null |-> FALSE, buffer_is_null |-> FALSE, sdu |-> s, ptype |-> p]

\* a short IPv4 packet under IPv4, IPv6, signalling and a type with no
\* compressed code; an IPv6 packet; four zero bytes (not an IP packet); an
\* IPv4 packet of the largest size, one a byte longer, and the one above
EncapSdus ==
    { EncapSdu(IpSdu(4), p) :
          p \in { RLE_PROTO_TYPE_IPV4_UNCOMP, RLE_PROTO_TYPE_IPV6_UNCOMP,
                  RLE_PROTO_TYPE_SIGNAL_UNCOMP, 4660 } }
    \cup
    { EncapSdu(<<96, 0, 0, 5, 1>>, RLE_PROTO_TYPE_IPV6_UNCOMP),
      EncapSdu(<<0, 0, 0, 0>>, RLE_PROTO_TYPE_SIGNAL_UNCOMP),
      EncapSdu(IpSdu(RLE_MAX_PDU_SIZE), RLE_PROTO_TYPE_IPV4_UNCOMP),
      EncapSdu(IpSdu(RLE_MAX_PDU_SIZE + 1), RLE_PROTO_TYPE_IPV4_UNCOMP),
      EncapSdu(OversizedSdu, RLE_PROTO_TYPE_IPV4_UNCOMP) }

\* the arguments of one call: an SDU, or a null transmitter, a null data
\* buffer, or both
EncapArgs ==
    EncapSdus
    \cup
    { [this_is_null |-> a, buffer_is_null |-> b, sdu |-> IpSdu(4),
       ptype |-> RLE_PROTO_TYPE_IPV4_UNCOMP] : a \in BOOLEAN, b \in BOOLEAN }

\* the call recorded with its arguments
TxCallArgs(op, fid, ret, pre, args) ==
    [op |-> op, fid |-> fid, burst |-> 0, ret |-> ret, ppdu |-> NoPpdu, pre |-> pre,
     args |-> args]

\* rle_transmitter_encap_data from its entry: the checks of the two pointers
encap_data_call(this_is_null, buffer_is_null, T, data_buffer, data_length, protocol_type, frag_id) ==
    IF buffer_is_null THEN TxResult(T, "C_ERROR", NoPpdu)
    ELSE IF this_is_null THEN TxResult(T, "C_ERROR", NoPpdu)
    ELSE rle_transmitter_encap_data(T, data_buffer, data_length, protocol_type, frag_id)

\* rle_transmitter_module_new takes no configuration: it allocates, runs
\* init and returns the module (allocation is taken to succeed)
rle_transmitter_module_new == TxResult(TrmtInit, "NON_NULL", NoPpdu)

\* rle_receiver_new: null on a configuration rle_config_check refuses
rle_receiver_new(cfg) ==
    IF rle_config_check(cfg) THEN [rcv |-> RcvInit, ret |-> "NON_NULL"]
    ELSE [rcv |-> RcvInit, ret |-> "NULL"]

InitEncap ==
    /\ conf \in EncapConfs
    /\ trmt = TrmtInit
    /\ tx_last = TxLastInit
    /\ submitted = <<>>
    /\ f_buff = FragBufInit
    /\ InitCommon

EncapNewTransmitter ==
    /\ steps < MaxEncaps
    /\ LET res == rle_transmitter_module_new
       IN  /\ trmt' = res.trmt
           /\ tx_last' = TxCallArgs("new_transmitter", 0, res.ret, trmt, conf)
    /\ steps' = steps + 1
    /\ UNCHANGED <<f_buff, modules, conf, threads, wire, submitted, rxvars>>

EncapNewReceiver ==
    /\ steps < MaxEncaps
    /\ LET res == rle_receiver_new(conf)
       IN  /\ rcv' = res.rcv
           /\ tx_last' = TxCallArgs("new_receiver", 0, res.ret, trmt, conf)
    /\ steps' = steps + 1
    /\ UNCHANGED <<f_buff, modules, conf, threads, wire, trmt, submitted, reassembled_sdu, rx_last, delivered>>

EncapData ==
    /\ steps < MaxEncaps
    /\ \E f \in UsedFids, a \in EncapArgs :
          LET res == encap_data_call(a.this_is_null, a.buffer_is_null, trmt,
                                     a.sdu, Len(a.sdu), a.ptype, f)
          IN  /\ trmt' = res.trmt
              /\ tx_last' = TxCallArgs("encap", f, res.ret, trmt, a)
    /\ steps' = steps + 1
    /\ UNCHANGED <<f_buff, modules, conf, threads, wire, submitted, rxvars>>

NextEncap == EncapNewTransmitter \/ EncapNewReceiver \/ EncapData

SpecEncap == InitEncap /\ [][NextEncap]_vars

-----------------------------------------------------------------------------
(* SpecHdr: rle_get_header_size asked, for a configuration, the overhead of *)
(* each type of FPDU.                                                       *)

FpduTypes ==
    { "RLE_LOGON_FPDU", "RLE_CTRL_FPDU", "RLE_TRAFFIC_FPDU", "RLE_TRAFFIC_CTRL_FPDU" }

\* rle_get_header_size depending on the protocol type of the configuration
\* for the Traffic-Control FPDU
rle_get_header_size_by_conf(cnf, fpdu_type) ==
    CASE fpdu_type = "RLE_LOGON_FPDU" -> [status |-> "RLE_HEADER_SIZE_OK", size |-> 6]
      [] fpdu_type = "RLE_CTRL_FPDU" -> [status |-> "RLE_HEADER_SIZE_OK", size |-> 3]
      [] fpdu_type = "RLE_TRAFFIC_CTRL_FPDU" ->
            [status |-> "RLE_HEADER_SIZE_OK",
             size |-> IF cnf.allow_ptype_omission THEN 3
                      ELSE IF cnf.use_compressed_ptype THEN 4 ELSE 5]
      [] OTHER -> [status |-> "RLE_HEADER_SIZE_ERR_NON_DETERMINISTIC", size |-> 0]

\* rle_get_header_size: the status and the size written on success
rle_get_header_size(cnf, fpdu_type) ==
    CASE fpdu_type = "RLE_LOGON_FPDU" -> [status |-> "RLE_HEADER_SIZE_OK", size |-> 6]
      [] fpdu_type = "RLE_CTRL_FPDU" -> [status |-> "RLE_HEADER_SIZE_OK", size |-> 3]
      [] fpdu_type = "RLE_TRAFFIC_CTRL_FPDU" ->
            [status |-> "RLE_HEADER_SIZE_OK", size |-> 5]
      [] OTHER -> [status |-> "RLE_HEADER_SIZE_ERR_NON_DETERMINISTIC", size |-> 0]

\* the configurations of the tests (implicit protocol types 0x00 and 0x34)
\* and their variants in the trailer flags, with the implicit type IPv4
HeaderConfs ==
    { RleConfig(Conf(o, c, crc, imp), seq, 0, 0, 0) :
        o \in BOOLEAN, c \in BOOLEAN, crc \in BOOLEAN, seq \in BOOLEAN,
        imp \in {0, 52, RLE_PROTO_TYPE_IPV4_COMP} }

GetHeaderSize ==
    /\ \E fpdu_type \in FpduTypes :
           LET res == rle_get_header_size(conf, fpdu_type)
           IN  tx_last' = TxCallArgs("get_header_size", 0, res.status, trmt,
                                     [fpdu_type |-> fpdu_type, size |-> res.size])
    /\ UNCHANGED <<f_buff, modules, conf, threads, wire, trmt, submitted, rxvars, steps>>

InitHdr ==
    /\ conf \in HeaderConfs
    /\ trmt = TrmtInit
    /\ tx_last = TxLastInit
    /\ submitted = <<>>
    /\ f_buff = FragBufInit
    /\ InitCommon

NextHdr == GetHeaderSize

SpecHdr == InitHdr /\ [][NextHdr]_vars

-----------------------------------------------------------------------------
(* SpecDestroy: a caller creating and destroying a transmitter, a receiver  *)
(* and a fragmentation buffer.  The destruction is called with the caller's *)
(* handle ("HANDLE") or with a null pointer ("NULL_ARG").                   *)

DestroyArgs == {"NULL_ARG", "HANDLE"}

\* rle_transmitter_module_new, rle_receiver_new, rle_frag_buf_new: the
\* caller stores the returned pointer in its handle
module_new(M, k) == [M EXCEPT !.handle[k] = "PTR", !.heap[k] = "live"]

\* rle_transmitter_module_destroy: the outcomes of the call on the pointer
\* this, passed by value.  _this is dereferenced without a test, so a null
\* or dangling pointer is undefined behaviour (a memory fault, or a return
\* without a visible effect); the last line clears the parameter only
rle_transmitter_module_destroy(M, this) ==
    IF this = "NULL" \/ M.heap["transmitter"] # "live"
    THEN {M, [M EXCEPT !.crashed = TRUE]}
    ELSE {[M EXCEPT !.heap["transmitter"] = "freed"]}

\* rle_receiver_destroy and rle_frag_buf_del: nothing on a null pointer or a
\* null handle, else the module is freed and the handle set to null
module_destroy(M, k, arg) ==
    IF arg = "NULL_ARG" \/ M.handle[k] = "NULL" THEN M
    ELSE [M EXCEPT !.heap[k] = "freed", !.handle[k] = "NULL"]

DestroyCall(k, arg) ==
    tx_last' = TxCallArgs("destroy", 0, "void", trmt,
                          [kind |-> k, arg |-> arg, pre |-> modules])

NewCall(k) ==
    tx_last' = TxCallArgs("new", 0, "NON_NULL", trmt,
                          [kind |-> k, arg |-> "HANDLE", pre |-> modules])

TransmitterNew ==
    /\ ~modules.crashed
    /\ modules.heap["transmitter"] # "live"
    /\ modules' = module_new(modules, "transmitter")
    /\ NewCall("transmitter")
    /\ UNCHANGED <<f_buff, conf, threads, wire, trmt, submitted, rxvars, steps>>

ReceiverNew ==
    /\ ~modules.crashed
    /\ modules.heap["receiver"] # "live"
    /\ modules' = module_new(modules, "receiver")
    /\ NewCall("receiver")
    /\ UNCHANGED <<f_buff, conf, threads, wire, trmt, submitted, rxvars, steps>>

FragBufNew ==
    /\ ~modules.crashed
    /\ modules.heap["f_buff"] # "live"
    /\ modules' = module_new(modules, "f_buff")
    /\ NewCall("f_buff")
    /\ UNCHANGED <<f_buff, conf, threads, wire, trmt, submitted, rxvars, steps>>

TransmitterDestroy ==
    /\ ~modules.crashed
    /\ \E arg \in DestroyArgs :
           LET this == IF arg = "NULL_ARG" THEN "NULL"
                       ELSE modules.handle["transmitter"]
           IN  /\ modules' \in rle_transmitter_module_destroy(modules, this)
               /\ DestroyCall("transmitter", arg)
    /\ UNCHANGED <<f_buff, conf, threads, wire, trmt, submitted, rxvars, steps>>

ReceiverDestroy ==
    /\ ~modules.crashed
    /\ \E arg \in DestroyArgs :
           /\ modules' = module_destroy(modules, "receiver", arg)
           /\ DestroyCall("receiver", arg)
    /\ UNCHANGED <<f_buff, conf, threads, wire, trmt, submitted, rxvars, steps>>

FragBufDel ==
    /\ ~modules.crashed
    /\ \E arg \in DestroyArgs :
           /\ modules' = module_destroy(modules, "f_buff", arg)
           /\ DestroyCall("f_buff", arg)
    /\ UNCHANGED <<f_buff, conf, threads, wire, trmt, submitted, rxvars, steps>>

NextDestroy ==
    \/ TransmitterNew \/ ReceiverNew \/ FragBufNew
    \/ TransmitterDestroy \/ ReceiverDestroy \/ FragBufDel

SpecDestroy == Init /\ [][NextDestroy]_vars

-----------------------------------------------------------------------------
(* SpecFragBuf: a caller with one fragmentation buffer, used without a      *)
(* context of the transmitter: rle_frag_buf_init, rle_frag_buf_cpy_sdu,     *)
(* rle_encap_contextless, rle_frag_contextless.  The transmitter and the    *)
(* buffer given to rle_frag_contextless may be null pointers.               *)

FragBufSdus == { IpSdu(4), IpSdu(7) }

FragBufBursts == { 2, 6, 50 }

rle_frag_buf_init(F) == [state |-> "initialised", ctx |-> FragBufInit.ctx]

\* rle_frag_buf_cpy_sdu: refused on a buffer that is not initialised
rle_frag_buf_cpy_sdu(F, sdu) ==
    IF F.state = "allocated" THEN F
    ELSE [state |-> "sdu_copied",
          ctx |-> [FragBufInit.ctx EXCEPT !.pdu = sdu, !.pdu_length = Len(sdu)]]

\* rle_encap_contextless: the ALPDU is made as rle_transmitter_encap_data
\* makes it in a context; refused on a buffer without SDU
rle_encap_contextless(F) ==
    IF F.state # "sdu_copied" THEN F
    ELSE LET res == rle_transmitter_encap_data(TrmtInit, F.ctx.pdu, F.ctx.pdu_length,
                                               RLE_PROTO_TYPE_IPV4_UNCOMP, 0)
         IN  IF res.ret # "C_OK" THEN F
             ELSE [state |-> "encapsulated", ctx |-> res.trmt.rle_ctx_man[0]]

rle_frag_status(ret) ==
    CASE ret = "C_OK" -> "RLE_FRAG_OK"
      [] ret = "C_ERROR_FRAG_SIZE" -> "RLE_FRAG_ERR_BURST_TOO_SMALL"
      [] OTHER -> "RLE_FRAG_ERR"

FragBufResult(F, status, ppdu) == [f_buff |-> F, status |-> status, ppdu |-> ppdu]

\* rle_frag_contextless without the test of the state of the buffer
rle_frag_contextless_no_state_test(t_is_null, f_is_null, F, burst_length) ==
    IF t_is_null THEN FragBufResult(F, "RLE_FRAG_ERR_NULL_TRMT", NoPpdu)
    ELSE IF f_is_null THEN FragBufResult(F, "RLE_FRAG_ERR_NULL_F_BUFF", NoPpdu)
    ELSE LET res == fragmentation_fragment_pdu(F.ctx, conf, burst_length,
                                               F.ctx.proto_type)
         IN  FragBufResult([F EXCEPT !.ctx = res.ctx], rle_frag_status(res.ret), res.ppdu)

\* rle_frag_contextless: the null pointers, then the state of the buffer,
\* then one PPDU of at most burst_length bytes
rle_frag_contextless(t_is_null, f_is_null, F, burst_length) ==
    IF t_is_null THEN FragBufResult(F, "RLE_FRAG_ERR_NULL_TRMT", NoPpdu)
    ELSE IF f_is_null THEN FragBufResult(F, "RLE_FRAG_ERR_NULL_F_BUFF", NoPpdu)
    ELSE IF F.state # "encapsulated"
    THEN FragBufResult(F, "RLE_FRAG_ERR_N_INIT_F_BUFF", NoPpdu)
    ELSE LET res == fragmentation_fragment_pdu(F.ctx, conf, burst_length,
                                               F.ctx.proto_type)
         IN  FragBufResult([F EXCEPT !.ctx = res.ctx], rle_frag_status(res.ret), res.ppdu)

FragBufCall(op, status, args) ==
    tx_last' = TxCallArgs(op, 0, status, trmt, args)

FragBufInitCall ==
    /\ f_buff' = rle_frag_buf_init(f_buff)
    /\ FragBufCall("frag_buf_init", "0", [pre |-> f_buff])
    /\ UNCHANGED <<modules, conf, threads, wire, trmt, submitted, rxvars, steps>>

FragBufCpySdu ==
    /\ \E sdu \in FragBufSdus :
           /\ f_buff' = rle_frag_buf_cpy_sdu(f_buff, sdu)
           /\ FragBufCall("frag_buf_cpy_sdu",
                          IF f_buff.state = "allocated" THEN "1" ELSE "0",
                          [pre |-> f_buff])
    /\ UNCHANGED <<modules, conf, threads, wire, trmt, submitted, rxvars, steps>>

FragBufEncap ==
    /\ f_buff' = rle_encap_contextless(f_buff)
    /\ FragBufCall("encap_contextless",
                   IF f_buff' .state = "encapsulated" /\ f_buff.state = "sdu_copied"
                   THEN "RLE_ENCAP_OK" ELSE "RLE_ENCAP_ERR",
                   [pre |-> f_buff])
    /\ UNCHANGED <<modules, conf, threads, wire, trmt, submitted, rxvars, steps>>

FragBufFrag ==
    /\ \E t_is_null \in BOOLEAN, f_is_null \in BOOLEAN, burst \in FragBufBursts :
           LET res == rle_frag_contextless(t_is_null, f_is_null, f_buff, burst)
           IN  /\ f_buff' = res.f_buff
               /\ FragBufCall("frag_contextless", res.status,
                              [pre |-> f_buff, t_is_null |-> t_is_null,
                               f_is_null |-> f_is_null, burst |-> burst,
                               ppdu |-> res.ppdu])
    /\ UNCHANGED <<modules, conf, threads, wire, trmt, submitted, rxvars, steps>>

NextFragBuf == FragBufInitCall \/ FragBufCpySdu \/ FragBufEncap \/ FragBufFrag

SpecFragBuf == Init /\ [][NextFragBuf]_vars

-----------------------------------------------------------------------------
(* SpecSeq: the sequence numbers of the contexts of a new transmitter,      *)
(* advanced by rle_ctx_incr_seq_nb on the first and on the last             *)
(* fragment-id.                                                             *)

SeqFids == { 0, RLE_MAX_FRAG_ID }

CtxIncrSeqNb ==
    /\ steps < MaxIncrs
    /\ \E fid \in SeqFids :
           /\ trmt' = [trmt EXCEPT !.rle_ctx_man[fid] = rle_ctx_incr_seq_nb(@)]
           /\ tx_last' = TxCallArgs("incr_seq_nb", fid, "void", trmt, <<>>)
    /\ steps' = steps + 1
    /\ UNCHANGED <<f_buff, modules, conf, threads, wire, submitted, rxvars>>

NextSeq == CtxIncrSeqNb

SpecSeq == Init /\ [][NextSeq]_vars

-----------------------------------------------------------------------------
(* SpecLabel: the label type of a context, set directly through             *)
(* rle_ctx_set_label_type and by the encapsulation (create_header).         *)

\* the values of the two-bit label-type field
LabelTypes == 0 .. 3

CtxSetLabelType ==
    /\ steps < MaxCalls
    /\ \E fid \in SeqFids, val \in LabelTypes :
          /\ trmt' = [trmt EXCEPT !.rle_ctx_man[fid] = rle_ctx_set_label_type(@, val)]
          /\ tx_last' = TxCallArgs("set_label_type", fid, "void", trmt, val)
    /\ steps' = steps + 1
    /\ UNCHANGED <<f_buff, modules, conf, threads, wire, submitted, rxvars>>

NextLabel == CtxSetLabelType \/ Encap

SpecLabel == Init /\ [][NextLabel]_vars

-----------------------------------------------------------------------------
(* Properties of the transmitter and of the pipeline, checked under Spec.   *)

\* the transmitter was given one SDU, took it without error, emitted its
\* last PPDU, and the receiver has handled every PPDU on the wire
RoundTripDone ==
    /\ Len(submitted) = 1
    /\ wire = <<>>
    /\ tx_last.op = "get_packet"
    /\ tx_last.ret = "C_OK"
    /\ ~frag_is_pending(trmt.rle_ctx_man[tx_last.fid], conf)
    /\ \A f \in FragIds : trmt.rle_ctx_man[f].counter_dropped = 0

\* C1: round trip: an SDU of any content and protocol type offered on a
\* fragment-id that is not in use is accepted by the transmitter, and once
\* all its PPDUs were emitted and handed in order to the receiver of the
\* same configuration, exactly one SDU was delivered, with the bytes and
\* the protocol type of the SDU offered.
C1_RoundTrip ==
    /\ (tx_last.op = "encap" /\ BitOf(tx_last.pre.free_ctx, tx_last.fid) = 0)
           => tx_last.ret = "C_OK"
    /\ RoundTripDone => delivered = submitted

\* C2: for every fragment-id the bit in the free-context bitmap is set if
\* and only if the context holds an ALPDU not yet emitted whole (its queue
\* size is not zero).
C2_BitmapInvariant ==
    \A f \in FragIds :
        (BitOf(trmt.free_ctx, f) = 1) <=> (rle_transmitter_get_queue_size(trmt, f) # 0)

-----------------------------------------------------------------------------
(* Properties of the receiver's state machine, checked under SpecRx.        *)
(* rx_last holds the PPDU of the last call, its status, and the context and *)
(* the caller's SDU as they were before the call.                           *)

RxFid == rx_last.fid
RxCtx == rcv.rle_ctx_man[rx_last.fid]

\* a START PPDU as a transmitter of the configuration builds it: the ALPDU
\* header of the configuration, then SDU bytes, no more of them than the
\* total ALPDU length leaves once header and trailer are taken off
WellFormedStart(p) ==
    LET hdr == Len(RxHdr)
        trl == IF p.crc THEN 4 ELSE 1
    IN  /\ ~p.supp
        /\ Len(p.frag) >= hdr
        /\ Take(p.frag, hdr) = RxHdr
        /\ p.total >= hdr + trl
        /\ Len(p.frag) - hdr <= p.total - hdr - trl

\* C3: a well-formed START PPDU on a FREE fragment-id is accepted, marks the
\* context in use and records the SDU total length (ALPDU total length
\* minus header length minus trailer length), the protocol type, the
\* compressed protocol type, the CRC/seqnum mode of the PPDU header and the
\* SDU bytes of the first fragment.
C3_FreeStart ==
    (rx_last.kind = "START" /\ rx_last.was_free /\ WellFormedStart(rx_last.ppdu)) =>
        LET p == rx_last.ppdu
            hdr == Len(RxHdr)
        IN  /\ rx_last.ret = "C_OK"
            /\ ~is_context_free(rcv, RxFid)
            /\ RxCtx.buff.sdu_len = p.total - hdr - (IF p.crc THEN 4 ELSE 1)
            /\ RxCtx.buff.size = RxCtx.buff.sdu_len
            /\ RxCtx.buff.protocol_type = RLE_PROTO_TYPE_IPV4_UNCOMP
            /\ RxCtx.buff.comp_protocol_type = RLE_PROTO_TYPE_IPV4_COMP
            /\ RxCtx.use_crc = p.crc
            /\ Len(RxCtx.buff.sdu_frag) = Len(p.frag) - hdr
            /\ RxCtx.buff.sdu_frag = Drop(p.frag, hdr)

\* a START PPDU announcing a CRC trailer was accepted on a FREE fragment-id
\* after the receiver had already handled other PPDUs
C3_Witness ==
    /\ rx_last.kind = "START"
    /\ rx_last.was_free
    /\ WellFormedStart(rx_last.ppdu)
    /\ rx_last.ppdu.crc
    /\ rx_last.ret = "C_OK"
    /\ RxCtx.buff.sdu_len = 2
    /\ steps > 1

\* C4: a CONT or END PPDU for a fragment-id whose context is FREE is
\* rejected with an error, delivers no SDU, leaves the context FREE and
\* increments the dropped counter of that context.
C4_FreeContEnd ==
    (rx_last.kind \in {"CONT", "END"} /\ rx_last.was_free) =>
        /\ rx_last.ret = "C_ERROR"
        /\ reassembled_sdu = rx_last.pre_sdu
        /\ is_context_free(rcv, RxFid)
        /\ RxCtx.counter_dropped > rx_last.pre.counter_dropped
        /\ RxCtx.counter_ok = rx_last.pre.counter_ok

\* a CONT PPDU was rejected on a FREE fragment-id that had carried an
\* ALPDU before
C4_Witness ==
    /\ rx_last.kind = "CONT"
    /\ rx_last.was_free
    /\ rx_last.ret = "C_ERROR"
    /\ rx_last.pre.counter_in > 0
    /\ RxCtx.counter_dropped = rx_last.pre.counter_dropped + 1

\* C5: a START PPDU for a fragment-id whose context is IN_PROGRESS is
\* rejected with an error; the partial SDU is dropped (nothing is
\* delivered), exactly one lost packet is counted and the context is FREE
\* afterwards.
C5_InProgressStart ==
    (rx_last.kind = "START" /\ ~rx_last.was_free) =>
        /\ rx_last.ret = "C_ERROR"
        /\ reassembled_sdu = rx_last.pre_sdu
        /\ is_context_free(rcv, RxFid)
        /\ RxCtx.counter_lost = rx_last.pre.counter_lost + 1
        /\ RxCtx.counter_dropped = rx_last.pre.counter_dropped + 1
        /\ RxCtx.counter_ok = rx_last.pre.counter_ok

\* a well-formed START PPDU was rejected because its fragment-id was
\* IN_PROGRESS with bytes of an earlier ALPDU
C5_Witness ==
    /\ rx_last.kind = "START"
    /\ ~rx_last.was_free
    /\ WellFormedStart(rx_last.ppdu)
    /\ rx_last.pre.buff.sdu_frag # <<>>
    /\ rx_last.ret = "C_ERROR"
    /\ is_context_free(rcv, RxFid)

\* the SDU bytes a CONT or END PPDU brings to a context whose trailer is
\* of trl bytes
FragBytes(p, trl) ==
    IF p.kind = "CONT" THEN Len(p.frag) ELSE Len(p.frag) - trl

TrailerLenOf(c) == IF c.use_crc THEN 4 ELSE 1

\* C6: in every context the bytes received never pass the declared SDU
\* total length; a CONT or END PPDU whose fragment would pass it is rejected
\* without appending; an accepted CONT adds exactly its fragment and keeps
\* the context in use.  Lengths are compared as the size_t values they are.
C6_BytesReceived ==
    /\ \A f \in FragIds :
          ULe(Len(rcv.rle_ctx_man[f].buff.sdu_frag), rcv.rle_ctx_man[f].buff.sdu_len)
    /\ (/\ rx_last.kind \in {"CONT", "END"}
        /\ ~rx_last.was_free
        /\ FragBytes(rx_last.ppdu, TrailerLenOf(rx_last.pre)) >= 0
        /\ UGt(Len(rx_last.pre.buff.sdu_frag)
                   + FragBytes(rx_last.ppdu, TrailerLenOf(rx_last.pre)),
               rx_last.pre.buff.sdu_len))
       => /\ rx_last.ret = "C_ERROR"
          /\ RxCtx.buff = rx_last.pre.buff
    /\ (rx_last.kind = "CONT" /\ rx_last.ret = "C_OK")
       => /\ RxCtx.buff.sdu_frag = rx_last.pre.buff.sdu_frag \o rx_last.ppdu.frag
          /\ RxCtx.buff.sdu_len = rx_last.pre.buff.sdu_len
          /\ ~is_context_free(rcv, RxFid)

\* a CONT PPDU was rejected because the context, filled by a START and an
\* accepted CONT, had already received its declared total
C6_Witness ==
    /\ rx_last.kind = "CONT"
    /\ ~rx_last.was_free
    /\ rx_last.ret = "C_ERROR"
    /\ rx_last.pre.buff.sdu_len = 2
    /\ Len(rx_last.pre.buff.sdu_frag) = 2
    /\ RxCtx.buff = rx_last.pre.buff

\* C7: reassembly_end_ppdu returns C_REASSEMBLY_OK only if the context was
\* IN_PROGRESS, the END fragment less its trailer brings the bytes received
\* exactly to the declared total and the trailer validates; the context is
\* FREE afterwards whether the call succeeds or fails.
C7_InProgressEnd ==
    rx_last.kind = "END" =>
        /\ is_context_free(rcv, RxFid)
        /\ rx_last.ret = "C_REASSEMBLY_OK" =>
              LET trl == TrailerLenOf(rx_last.pre)
                  frag == rx_last.ppdu.frag
              IN  /\ ~rx_last.was_free
                  /\ Len(frag) >= trl
                  /\ Len(rx_last.pre.buff.sdu_frag) + Len(frag) - trl
                         = rx_last.pre.buff.sdu_len
                  /\ reassembled_sdu.buffer
                         = rx_last.pre.buff.sdu_frag \o Take(frag, Len(frag) - trl)
                  /\ rx_last.pre.use_crc =>
                         Drop(frag, Len(frag) - trl) = compute_crc32(reassembled_sdu)
                  /\ RxCtx.counter_ok = rx_last.pre.counter_ok + 1

\* an END PPDU with the right CRC completed an SDU of two bytes
C7_Witness ==
    /\ rx_last.kind = "END"
    /\ rx_last.ret = "C_REASSEMBLY_OK"
    /\ rx_last.pre.use_crc
    /\ reassembled_sdu.buffer = <<IpByte, IpByte>>
    /\ is_context_free(rcv, RxFid)

\* C8: every reassembly error (in START, CONT or END handling) releases the
\* context of the fragment-id, counts the SDU as dropped and counts its
\* unreceived remainder as lost; nothing is delivered for the PPDU.
C8_FailureSemantics ==
    (rx_last.kind \in {"START", "CONT", "END"} /\ rx_last.ret = "C_ERROR") =>
        /\ is_context_free(rcv, RxFid)
        /\ RxCtx.counter_dropped > rx_last.pre.counter_dropped
        /\ RxCtx.counter_lost > rx_last.pre.counter_lost
        /\ RxCtx.counter_ok = rx_last.pre.counter_ok

-----------------------------------------------------------------------------
(* Properties of the trailers, checked under SpecLink.                      *)

\* the ALPDUs lost between the ALPDUs sent, as their sequence numbers tell
RECURSIVE GapSum(_)
GapSum(sent) ==
    IF Len(sent) < 2 THEN 0
    ELSE GapSum(Take(sent, Len(sent) - 1))
         + ((sent[Len(sent)].seq - sent[Len(sent) - 1].seq - 1) % RLE_MAX_SEQ_NO)

\* C9: in sequence-number mode every ALPDU that reaches the receiver whole
\* is delivered, whatever its sequence number; the first END counts no
\* loss and every later END adds (received - expected) mod 8 to the lost
\* counter of the context, so that once N SDUs are delivered the lost
\* counter is the sum of the gaps, and zero when there is none.
C9_SeqnumLost ==
    (~conf.allow_alpdu_crc /\ wire = <<>>) =>
        /\ delivered = [i \in 1 .. Len(submitted) |->
                           [size |-> submitted[i].size,
                            protocol_type |-> submitted[i].protocol_type,
                            buffer |-> submitted[i].buffer]]
        /\ rcv.rle_ctx_man[0].counter_lost = GapSum(submitted)

\* C10: with the CRC trailer, an ALPDU that reaches the receiver with one
\* bit inverted (in its header, its SDU or its trailer) fails at its END
\* PPDU: the SDU is not delivered, the dropped counter moves and the
\* context is released.
C10_CrcBitFlip ==
    (/\ conf.allow_alpdu_crc
     /\ wire = <<>>
     /\ rx_last.kind = "END"
     /\ submitted[Len(submitted)].flip_at > 0) =>
        /\ rx_last.ret = "C_ERROR"
        /\ RxCtx.counter_dropped > rx_last.pre.counter_dropped
        /\ RxCtx.counter_ok = rx_last.pre.counter_ok
        /\ Len(delivered) = Len(submitted) - Cardinality(LinkFlipped)
        /\ is_context_free(rcv, 0)

\* the END PPDU of an ALPDU with an inverted bit in its CRC trailer was
\* handled on the IN_PROGRESS context, after an ALPDU delivered whole
C10_Witness ==
    /\ conf.allow_alpdu_crc
    /\ wire = <<>>
    /\ rx_last.kind = "END"
    /\ ~rx_last.was_free
    /\ Len(submitted) = 2
    /\ submitted[2].flip_at = Len(LinkAlpdu(conf, 0))
    /\ Len(delivered) = 1
    /\ rx_last.ret = "C_ERROR"

-----------------------------------------------------------------------------
(* Properties of the transmitter facade, checked under Spec.                *)

\* the last transmitter call was a get_packet that wrote the END or the COMP
\* PPDU of an ALPDU
EmittedLastPpdu ==
    /\ tx_last.op = "get_packet"
    /\ tx_last.ret = "C_OK"
    /\ tx_last.ppdu.kind \in {"END", "COMP"}

\* C11: once get_packet has written the END or the COMP PPDU of an ALPDU the
\* bit of its fragment-id is clear in the bitmap, and the next call of the
\* transmitter, if it is an encapsulation on that fragment-id, returns C_OK.
C11_ContextRelease ==
    /\ [](EmittedLastPpdu => BitOf(trmt.free_ctx, tx_last.fid) = 0)
    /\ [][(EmittedLastPpdu /\ tx_last'.op = "encap" /\ tx_last'.fid = tx_last.fid)
              => tx_last'.ret = "C_OK"]_vars

\* the context of fragment-id f holds an ALPDU not yet emitted whole
HoldsUnfinishedAlpdu(T, f) == rle_transmitter_get_queue_size(T, f) # 0

\* C13: an encapsulation on a fragment-id whose context holds an unfinished
\* ALPDU returns an error and leaves the transmitter (the pending ALPDU, the
\* bitmap, the counters of every context) as it was before the call.
C13_EncapBusy ==
    (tx_last.op = "encap" /\ HoldsUnfinishedAlpdu(tx_last.pre, tx_last.fid)) =>
        /\ tx_last.ret = "C_ERROR"
        /\ trmt = tx_last.pre

-----------------------------------------------------------------------------
(* Properties of fragmentation, checked under SpecFrag.                     *)

\* the last call was a get_packet with a burst of at least 5 bytes on a
\* fragment-id that is taken and whose ALPDU is not yet emitted whole
GetPacketOnPending ==
    /\ tx_last.op = "get_packet"
    /\ tx_last.burst >= MinBurstStart
    /\ BitOf(tx_last.pre.free_ctx, tx_last.fid) = 1
    /\ frag_is_pending(tx_last.pre.rle_ctx_man[tx_last.fid], conf)

\* C12: every get_packet with a burst of at least 5 bytes on a pending ALPDU
\* makes progress (it returns C_OK and its PPDU carries at least one byte),
\* so that the ALPDU is consumed in finitely many bursts, and once the ALPDU
\* is consumed the fragment-id is released.
C12_TransmitLiveness ==
    GetPacketOnPending =>
        /\ tx_last.ret = "C_OK"
        /\ Len(tx_last.ppdu.frag) > 0
        /\ ~frag_is_pending(trmt.rle_ctx_man[tx_last.fid], conf)
               => BitOf(trmt.free_ctx, tx_last.fid) = 0

\* the ALPDU fragments of a sequence of PPDUs, joined in order
RECURSIVE Payloads(_)
Payloads(ppdus) ==
    IF ppdus = <<>> THEN <<>> ELSE Head(ppdus).frag \o Payloads(Tail(ppdus))

\* the ALPDU of fragment-id 0 as rle_transmitter_dump_alpdu gives it
rle_transmitter_dump_alpdu(T, frag_id) == TxAlpdu(T.rle_ctx_man[frag_id], conf)

\* the trailer of the ALPDU last taken by fragment-id 0, had it been cut
TrailerOfLast ==
    IF conf.allow_alpdu_crc
    THEN compute_crc32(submitted[Len(submitted)])
    ELSE <<(trmt.rle_ctx_man[0].next_seq_nb - 1) % RLE_MAX_SEQ_NO>>

\* C20: a get_packet that returns C_OK has written exactly one PPDU, of at
\* most burst_length bytes with its header; the fragments of the PPDUs
\* written for one ALPDU, joined in the order written, are the first bytes
\* of the ALPDU, and once the COMP PPDU or the END PPDU is written they are
\* the ALPDU (followed, for END, by its trailer), each byte once.
C20_PpduEmission ==
    /\ (tx_last.op = "get_packet" /\ tx_last.ret = "C_OK") =>
           /\ tx_last.ppdu.kind \in {"COMP", "START", "CONT", "END"}
           /\ PpduLength(tx_last.ppdu) <= tx_last.burst
           /\ wire # <<>> /\ wire[Len(wire)] = tx_last.ppdu
    /\ wire # <<>> =>
           LET alpdu == rle_transmitter_dump_alpdu(trmt, 0)
               cat == Payloads(wire)
               last == wire[Len(wire)].kind
           IN  CASE last = "COMP" -> Len(wire) = 1 /\ cat = alpdu
                 [] last = "END" -> cat = alpdu \o TrailerOfLast
                 [] OTHER -> Len(cat) <= Len(alpdu) /\ cat = Take(alpdu, Len(cat))

\* an ALPDU with a CRC trailer was emitted as a START, CONT and END PPDU
C20_Witness ==
    /\ conf.allow_alpdu_crc
    /\ Len(wire) >= 3
    /\ tx_last.op = "get_packet" /\ tx_last.ret = "C_OK"
    /\ tx_last.ppdu.kind = "END"

-----------------------------------------------------------------------------
(* Properties of concurrent producers, checked under SpecConc.              *)

\* C14: the test and the setting of a fragment-id's bit are one atomic step:
\* of two threads that called the encapsulation on the same fragment-id,
\* free before the calls, at most one took the context and returned C_OK.
C14_AtomicTake ==
    \A t, u \in Threads :
        (/\ t # u
         /\ threads[t].pc = "done" /\ threads[u].pc = "done"
         /\ threads[t].frag_id = threads[u].frag_id)
            => ~(threads[t].ret = "C_OK" /\ threads[u].ret = "C_OK")

-----------------------------------------------------------------------------
(* Properties of the encapsulation and of the creation of modules, checked  *)
(* under SpecEncap.                                                         *)

\* the last call was an encapsulation refused for its input: no transmitter,
\* no buffer, or an SDU longer than RLE_MAX_PDU_SIZE
ValidationFailure ==
    /\ tx_last.op = "encap"
    /\ tx_last.ret # "C_OK"
    /\ \/ tx_last.args.this_is_null
       \/ tx_last.args.buffer_is_null
       \/ Len(tx_last.args.sdu) > RLE_MAX_PDU_SIZE

\* C15: an encapsulation with a null transmitter returns an error, and an
\* encapsulation refused for its input (null transmitter, null buffer,
\* oversized SDU) leaves the bitmap and the eight contexts as they were.
C15_InputValidation ==
    /\ (tx_last.op = "encap" /\ tx_last.args.this_is_null) => tx_last.ret = "C_ERROR"
    /\ ValidationFailure => trmt = tx_last.pre

\* the last call gave an SDU to an existing transmitter on a free fragment-id
EncapOnFreeCtx ==
    /\ tx_last.op = "encap"
    /\ ~tx_last.args.this_is_null
    /\ ~tx_last.args.buffer_is_null
    /\ ~is_frag_ctx_free(tx_last.pre, tx_last.fid)

\* C16: the encapsulation succeeds for every SDU of at most RLE_MAX_PDU_SIZE
\* (4088) bytes and fails for every longer one; the length that decides is
\* the one the caller gives.
C16_SduSizeBoundary ==
    EncapOnFreeCtx =>
        (tx_last.ret = "C_OK" <=> Len(tx_last.args.sdu) <= RLE_MAX_PDU_SIZE)

\* the header of the three rules: empty when omission is allowed and the
\* pair (protocol type, implicit code) is one of the six of the table, else
\* the compressed code or 0xff and the two bytes, else the two bytes
RuledHeader(cnf, ptype) ==
    IF /\ cnf.allow_ptype_omission
       /\ ptype # RLE_PROTO_TYPE_SIGNAL_UNCOMP
       /\ is_suppressible(ptype, cnf.implicit_protocol_type)
    THEN <<>>
    ELSE IF cnf.use_compressed_ptype
    THEN IF rle_header_ptype_is_compressible(ptype)
         THEN <<rle_header_ptype_compression(ptype)>>
         ELSE <<RLE_PROTO_TYPE_FALLBACK>> \o PtypeBytes(ptype)
    ELSE PtypeBytes(ptype)

\* C17: the ALPDU dumped after a successful encapsulation is the header
\* followed by the bytes of the SDU, the header being the one the three
\* rules give for the configuration and the protocol type of the SDU (so it
\* depends on these two only) and 0 to 3 bytes long.
C17_AlpduHeader ==
    (tx_last.op = "encap" /\ tx_last.ret = "C_OK") =>
        LET header == RuledHeader(conf, tx_last.args.ptype)
        IN  /\ rle_transmitter_dump_alpdu(trmt, tx_last.fid) = header \o tx_last.args.sdu
            /\ Len(header) \in 0 .. 3

\* C18: the ALPDU of an SDU of protocol type 0x0082 (signalling) has no
\* protocol-type field under any configuration, omission disabled included:
\* the dumped ALPDU is the SDU.
C18_L2sSuppression ==
    (/\ tx_last.op = "encap"
     /\ tx_last.ret = "C_OK"
     /\ tx_last.args.ptype = RLE_PROTO_TYPE_SIGNAL_UNCOMP) =>
        rle_transmitter_dump_alpdu(trmt, tx_last.fid) = tx_last.args.sdu

\* C19: the creation of a transmitter or of a receiver returns null exactly
\* when the configuration has a label size above 15, or an invalid implicit
\* protocol type, or allows neither the CRC nor the sequence number.
C19_ConfigValidation ==
    tx_last.op \in {"new_transmitter", "new_receiver"} =>
        (tx_last.ret = "NULL" <=> ~rle_config_check(tx_last.args))

-----------------------------------------------------------------------------
(* Properties of the bursts, checked under SpecBurst.                       *)

\* the context of the last call as it was before the call, and after it
PreCtx == tx_last.pre.rle_ctx_man[tx_last.fid]
PostCtx == trmt.rle_ctx_man[tx_last.fid]

\* the bytes the context had left to emit before the call: the rest of the
\* ALPDU and the trailer
PreRemaining == Len(TxAlpdu(PreCtx, conf)) - PreCtx.alpdu_pos + Len(PreCtx.trailer)

\* the last call was a get_packet on a pending ALPDU below the fragment cap;
\* first is TRUE when no PPDU of the ALPDU was emitted yet
GetPacketBelowCap(first) ==
    /\ tx_last.op = "get_packet"
    /\ frag_is_pending(PreCtx, conf)
    /\ (PreCtx.frag_counter = 1) = first
    /\ PreCtx.nb_frag_pdu < RLE_MAX_SEQ_NO

\* C21: a burst of less than 5 bytes for a START, or of less than 3 bytes
\* for a CONT or an END, gets the burst-too-small error and no PPDU; a burst
\* of 3 bytes with one byte left to emit gets the END PPDU, and the
\* fragment-id is released.
C21_MinBurst ==
    /\ (/\ GetPacketBelowCap(TRUE)
        /\ tx_last.burst < MinBurstStart
        /\ tx_last.burst < Len(TxAlpdu(PreCtx, conf)) + 2) =>
           tx_last.ret = "C_ERROR_FRAG_SIZE" /\ tx_last.ppdu = NoPpdu
    /\ (GetPacketBelowCap(FALSE) /\ tx_last.burst < MinBurstContEnd) =>
           tx_last.ret = "C_ERROR_FRAG_SIZE" /\ tx_last.ppdu = NoPpdu
    /\ (/\ GetPacketBelowCap(FALSE)
        /\ tx_last.burst = MinBurstContEnd
        /\ PreRemaining = 1) =>
           /\ tx_last.ret = "C_OK"
           /\ tx_last.ppdu.kind = "END"
           /\ BitOf(trmt.free_ctx, tx_last.fid) = 0

\* C28: a get_packet that returns another status than C_OK counts one more
\* dropped SDU on the fragment-id and releases it, and the ALPDU is not
\* continued: the next get_packet on the fragment-id does not return C_OK.
C28_TransmitErrorRelease ==
    /\ []((tx_last.op = "get_packet" /\ tx_last.ret # "C_OK") =>
              /\ PostCtx.counter_dropped = PreCtx.counter_dropped + 1
              /\ BitOf(trmt.free_ctx, tx_last.fid) = 0)
    /\ [][(/\ tx_last.op = "get_packet" /\ tx_last.ret # "C_OK"
           /\ tx_last'.op = "get_packet" /\ tx_last'.fid = tx_last.fid)
              => tx_last'.ret # "C_OK"]_vars

\* the length of the trailer of a fragmented ALPDU
TrailerLen == IF conf.allow_alpdu_crc THEN 4 ELSE 1

\* C30: the whole trailer is in the END PPDU and no byte of it in a START or
\* a CONT PPDU; after the START, the END PPDU is emitted exactly when the
\* rest of the ALPDU and the trailer fit in burst_length - 2, and else a
\* CONT PPDU, after which the ALPDU is still pending.
C30_TrailerPlacement ==
    (tx_last.op = "get_packet" /\ tx_last.ret = "C_OK") =>
        LET alpdu == TxAlpdu(PreCtx, conf)
            rest == Drop(alpdu, PreCtx.alpdu_pos)
            frag == tx_last.ppdu.frag
            kind == tx_last.ppdu.kind
        IN  /\ kind = "COMP" => frag = alpdu
            /\ kind = "START" =>
                   /\ Len(frag) <= Len(alpdu) /\ frag = Take(alpdu, Len(frag))
                   /\ Len(PostCtx.trailer) = TrailerLen
                   /\ frag_is_pending(PostCtx, conf)
            /\ kind = "CONT" =>
                   /\ Len(frag) <= Len(rest) /\ frag = Take(rest, Len(frag))
                   /\ PostCtx.trailer = PreCtx.trailer
                   /\ frag_is_pending(PostCtx, conf)
            /\ kind = "END" =>
                   /\ frag = rest \o PreCtx.trailer
                   /\ Len(PreCtx.trailer) = TrailerLen
                   /\ ~frag_is_pending(PostCtx, conf)
            /\ PreCtx.frag_counter > 1 =>
                   (kind = "END" <=> PreRemaining <= tx_last.burst - 2)

\* a CONT PPDU took the rest of the ALPDU and left the CRC trailer, which
\* did not fit with it, to the END PPDU
C30_Witness ==
    /\ tx_last.op = "get_packet" /\ tx_last.ret = "C_OK"
    /\ tx_last.ppdu.kind = "CONT"
    /\ conf.allow_alpdu_crc
    /\ PostCtx.alpdu_pos = Len(TxAlpdu(PostCtx, conf))
    /\ Len(PostCtx.trailer) = 4

-----------------------------------------------------------------------------
(* Properties of the fragment cap, checked under SpecFrag.                  *)

\* C29: no more than RLE_MAX_SEQ_NO PPDUs are emitted for one ALPDU; a
\* get_packet on a fragment-id that has emitted RLE_MAX_SEQ_NO of them
\* returns C_ERROR_TOO_MUCH_FRAG, writes no PPDU, and leaves the cursor of
\* the context where it was (fragmentation is not called).
C29_FragmentCap ==
    /\ Len(wire) <= RLE_MAX_SEQ_NO
    /\ trmt.rle_ctx_man[0].nb_frag_pdu <= RLE_MAX_SEQ_NO
    /\ (tx_last.op = "get_packet" /\ PreCtx.nb_frag_pdu >= RLE_MAX_SEQ_NO) =>
           /\ tx_last.ret = "C_ERROR_TOO_MUCH_FRAG"
           /\ tx_last.ppdu = NoPpdu
           /\ PostCtx = rle_ctx_incr_counter_dropped(PreCtx)

\* the ninth get_packet for one ALPDU was refused
C29_Witness ==
    /\ tx_last.op = "get_packet"
    /\ tx_last.ret = "C_ERROR_TOO_MUCH_FRAG"
    /\ Len(wire) = RLE_MAX_SEQ_NO
    /\ frag_is_pending(PreCtx, conf)

-----------------------------------------------------------------------------
(* Properties of the VLAN reconstruction, checked under SpecVlan.           *)

\* the SDU as the sender made it: the SDU bytes of the COMP PPDU, or the
\* bytes gathered by the context followed by those of the END PPDU
VlanInput ==
    IF rx_last.kind = "COMP" THEN Drop(rx_last.ppdu.frag, 1)
    ELSE rx_last.pre.buff.sdu_frag
         \o Take(rx_last.ppdu.frag, Len(rx_last.ppdu.frag) - sizeof_seqno_trailer)

\* the last call reassembled an SDU of the compressed type 0x31
VlanReassembled ==
    \/ /\ rx_last.kind = "COMP"
       /\ rx_last.ppdu.frag[1] = RLE_PROTO_TYPE_VLAN_COMP_WO_PTYPE_FIELD
    \/ /\ rx_last.kind = "END"
       /\ ~rx_last.was_free
       /\ rx_last.pre.buff.comp_protocol_type = RLE_PROTO_TYPE_VLAN_COMP_WO_PTYPE_FIELD
       /\ Len(VlanInput) = rx_last.pre.buff.sdu_len

VlanWellFormed(s) ==
    /\ Len(s) >= 17
    /\ s[13] = 129 /\ s[14] = 0
    /\ s[17] \div 16 \in {4, 6}

VlanInnerType(s) == IF s[17] \div 16 = 4 THEN <<8, 0>> ELSE <<134, 221>>

\* C22: a reassembled SDU of the compressed type 0x31 that has at least 17
\* bytes, the outer EtherType 0x8100 and the IP version 4 or 6 in the high
\* nibble of the byte at offset 16 is delivered two bytes longer, with the
\* protocol type 0x8100, its first 16 bytes kept, 0x0800 or 0x86dd in bytes
\* 16..17 and the input from offset 16 after them; any other such SDU is
\* dropped with an error.  This holds after a COMP and after an END PPDU.
C22_VlanReconstruction ==
    VlanReassembled =>
        IF VlanWellFormed(VlanInput)
        THEN /\ rx_last.ret = "C_REASSEMBLY_OK"
             /\ reassembled_sdu.size = Len(VlanInput) + 2
             /\ Len(reassembled_sdu.buffer) = Len(VlanInput) + 2
             /\ reassembled_sdu.protocol_type = 33024
             /\ SubSeq(reassembled_sdu.buffer, 1, 16) = SubSeq(VlanInput, 1, 16)
             /\ SubSeq(reassembled_sdu.buffer, 17, 18) = VlanInnerType(VlanInput)
             /\ SubSeq(reassembled_sdu.buffer, 19, Len(VlanInput) + 2)
                    = SubSeq(VlanInput, 17, Len(VlanInput))
             /\ delivered # <<>>
             /\ delivered[Len(delivered)] = reassembled_sdu
        ELSE /\ rx_last.ret = "C_ERROR"
             /\ reassembled_sdu = rx_last.pre_sdu

\* an IPv6 frame of 19 bytes was rebuilt from a START and an END PPDU
C22_Witness ==
    /\ VlanReassembled
    /\ rx_last.kind = "END"
    /\ VlanWellFormed(VlanInput)
    /\ Len(VlanInput) = 19
    /\ rx_last.ret = "C_REASSEMBLY_OK"
    /\ SubSeq(reassembled_sdu.buffer, 17, 18) = <<134, 221>>

-----------------------------------------------------------------------------
(* Properties of the fragment-ids, checked under SpecRx.                    *)

\* the receiver with every context but that of fragment-id f as after creation
OnlyCtx(R, f) ==
    [free_ctx |-> R.free_ctx \cap {f},
     rle_ctx_man |-> [g \in FragIds |-> IF g = f THEN R.rle_ctx_man[g] ELSE RcvCtxInit],
     is_ctx_seqnum_init |-> [g \in FragIds |-> g = f /\ R.is_ctx_seqnum_init[g]]]

\* what the receiver holds for fragment-id f
CtxOf(R, f) == <<f \in R.free_ctx, R.rle_ctx_man[f], R.is_ctx_seqnum_init[f]>>

\* C23: a START, CONT or END PPDU changes only the context of its own
\* fragment-id, and its status, the new context and the SDU it delivers are
\* those it gives on a receiver whose other contexts are untouched (so the
\* SDUs of a fragment-id do not depend on how the PPDUs of the other
\* fragment-ids are interleaved with its own); a COMP PPDU changes no context;
\* a context in progress stays allocated over every PPDU of another
\* fragment-id and over every COMP PPDU.
C23_FragIdIndependence ==
    [][LET p == rx_last'.ppdu
           f == p.fid
           alone == reassembly_dispatch(OnlyCtx(rcv, f), SduInit, p)
       IN  /\ p.kind = "COMP" => rcv' = rcv
           /\ p.kind # "COMP" =>
                  /\ \A g \in FragIds \ {f} : CtxOf(rcv', g) = CtxOf(rcv, g)
                  /\ rx_last'.ret = alone.ret
                  /\ CtxOf(rcv', f) = CtxOf(alone.rcv, f)
                  /\ alone.ret = "C_REASSEMBLY_OK" => reassembled_sdu' = alone.sdu
           /\ \A g \in rcv.free_ctx :
                  (p.kind = "COMP" \/ g # f) => g \in rcv'.free_ctx]_vars

\* fragment-id 1 is in progress with one byte while an END PPDU delivers the
\* SDU of fragment-id 0
C23_Witness ==
    /\ rx_last.kind = "END" /\ rx_last.fid = 0
    /\ rx_last.ret = "C_REASSEMBLY_OK"
    /\ 1 \in rcv.free_ctx
    /\ Len(rcv.rle_ctx_man[1].buff.sdu_frag) = 1
    /\ 0 \notin rcv.free_ctx

-----------------------------------------------------------------------------
(* Properties of packing and unpacking, checked under SpecPack.             *)

PackedSlices == [i \in 1..Len(wire) |-> PpduBytes(wire[i])]

\* C24: unpacking the packed, zero-padded FPDU yields the byte slices of the
\* packed PPDUs, in their order, and nothing else: no PPDU is taken for
\* padding and no padding for a PPDU.
C24_PackUnpackRoundTrip ==
    rx_last.kind = "UNPACK" => delivered = PackedSlices

-----------------------------------------------------------------------------
(* Properties of the header-overhead query, checked under SpecHdr.          *)

\* C25: for every configuration rle_get_header_size returns OK with 6 for a
\* Logon FPDU, 3 for a Control FPDU and 5 for a Traffic-Control FPDU, and the
\* non-deterministic error for a Traffic FPDU.
C25_HeaderSize ==
    tx_last.op = "get_header_size" =>
        CASE tx_last.args.fpdu_type = "RLE_LOGON_FPDU" ->
                tx_last.ret = "RLE_HEADER_SIZE_OK" /\ tx_last.args.size = 6
          [] tx_last.args.fpdu_type = "RLE_CTRL_FPDU" ->
                tx_last.ret = "RLE_HEADER_SIZE_OK" /\ tx_last.args.size = 3
          [] tx_last.args.fpdu_type = "RLE_TRAFFIC_CTRL_FPDU" ->
                tx_last.ret = "RLE_HEADER_SIZE_OK" /\ tx_last.args.size = 5
          [] tx_last.args.fpdu_type = "RLE_TRAFFIC_FPDU" ->
                tx_last.ret = "RLE_HEADER_SIZE_ERR_NON_DETERMINISTIC"

\* the Traffic-Control overhead was asked with the protocol type omitted
C25_Witness ==
    /\ tx_last.op = "get_header_size"
    /\ tx_last.args.fpdu_type = "RLE_TRAFFIC_CTRL_FPDU"
    /\ conf.allow_ptype_omission
    /\ conf.implicit_protocol_type = 52
    /\ tx_last.args.size = 5

-----------------------------------------------------------------------------
(* Properties of the destruction, checked under SpecDestroy.                *)

DestroyedKind == tx_last.args.kind

BeforeDestroy == tx_last.args.pre

DestroyOfNull ==
    /\ tx_last.op = "destroy"
    /\ tx_last.args.arg = "NULL_ARG" \/ BeforeDestroy.handle[DestroyedKind] = "NULL"

DestroyOfValid ==
    /\ tx_last.op = "destroy"
    /\ tx_last.args.arg = "HANDLE"
    /\ BeforeDestroy.handle[DestroyedKind] = "PTR"
    /\ BeforeDestroy.heap[DestroyedKind] = "live"

\* C26: the destruction of a null handle (a null pointer, or a pointer to a
\* null transmitter, receiver or fragmentation buffer) changes nothing and
\* does not fault; the destruction of a valid module frees it and leaves
\* the caller's handle null; the modules of the other kinds are untouched.
C26_Destruction ==
    /\ DestroyOfNull => modules = BeforeDestroy
    /\ DestroyOfValid =>
           /\ ~modules.crashed
           /\ modules.heap[DestroyedKind] = "freed"
           /\ modules.handle[DestroyedKind] = "NULL"
    /\ tx_last.op = "destroy" =>
           \A k \in ModuleKinds \ {DestroyedKind} :
               /\ modules.handle[k] = BeforeDestroy.handle[k]
               /\ modules.heap[k] = BeforeDestroy.heap[k]

-----------------------------------------------------------------------------
(* Properties of the fragmentation buffer, checked under SpecFragBuf.       *)

FragCtxtlessCall == tx_last.op = "frag_contextless"

\* C27: rle_frag_contextless succeeds only on a buffer that was initialised,
\* given an SDU and encapsulated; on a buffer initialised and left empty it
\* returns the not-initialised error, with a null transmitter the
\* null-transmitter error, with a null buffer the null-buffer error; in the
\* three cases it gives no PPDU and leaves the buffer as it was.
C27_FragBufLifecycle ==
    FragCtxtlessCall =>
        LET a == tx_last.args
            empty == ~a.t_is_null /\ ~a.f_is_null /\ a.pre.state = "initialised"
        IN  /\ tx_last.ret = "RLE_FRAG_OK" =>
                   ~a.t_is_null /\ ~a.f_is_null /\ a.pre.state = "encapsulated"
            /\ empty => tx_last.ret = "RLE_FRAG_ERR_N_INIT_F_BUFF"
            /\ (a.t_is_null /\ ~a.f_is_null) => tx_last.ret = "RLE_FRAG_ERR_NULL_TRMT"
            /\ (a.f_is_null /\ ~a.t_is_null) => tx_last.ret = "RLE_FRAG_ERR_NULL_F_BUFF"
            /\ (a.t_is_null /\ a.f_is_null) =>
                   tx_last.ret \in {"RLE_FRAG_ERR_NULL_TRMT", "RLE_FRAG_ERR_NULL_F_BUFF"}
            /\ (empty \/ a.t_is_null \/ a.f_is_null) =>
                   a.ppdu = NoPpdu /\ f_buff = a.pre

\* a buffer initialised and left empty was refused with a burst of 50 bytes
C27_Witness ==
    /\ FragCtxtlessCall
    /\ ~tx_last.args.t_is_null /\ ~tx_last.args.f_is_null
    /\ tx_last.args.pre.state = "initialised"
    /\ tx_last.args.burst = 50
    /\ tx_last.ret = "RLE_FRAG_ERR_N_INIT_F_BUFF"

-----------------------------------------------------------------------------
(* Properties of the transmit sequence number, checked under SpecSeq.       *)

\* C31: the next sequence number of every transmitter context is 0 after
\* construction, is always in 0..7, and each increment advances it modulo 8
\* (7 wraps to 0).
C31_TxSeqNumber ==
    /\ \A f \in FragIds : TrmtInit.rle_ctx_man[f].next_seq_nb = 0
    /\ [](\A f \in FragIds : trmt.rle_ctx_man[f].next_seq_nb \in 0 .. 7)
    /\ [][tx_last'.op = "incr_seq_nb" =>
              trmt'.rle_ctx_man[tx_last'.fid].next_seq_nb =
                  (trmt.rle_ctx_man[tx_last'.fid].next_seq_nb + 1) % 8]_vars

-----------------------------------------------------------------------------
(* Properties of get_packet without pending ALPDU, checked under Spec.      *)

\* the fragment-id of the last call held no pending ALPDU before the call:
\* nothing was encapsulated or all was emitted, or the fragment-id was
\* released
NoPendingAlpdu ==
    \/ ~frag_is_pending(PreCtx, conf)
    \/ BitOf(tx_last.pre.free_ctx, tx_last.fid) = 0

\* C32: rle_transmitter_get_packet on a fragment-id that holds no pending
\* ALPDU (never encapsulated, fully emitted, or released) returns an error,
\* emits no PPDU and leaves the fragment-id not in use.
C32_NoPendingAlpdu ==
    (tx_last.op = "get_packet" /\ NoPendingAlpdu) =>
        /\ tx_last.ret # "C_OK"
        /\ tx_last.ppdu = NoPpdu
        /\ BitOf(trmt.free_ctx, tx_last.fid) = 0

\* the last call released its fragment-id: rle_transmitter_free_context, or
\* the release after a failed encapsulation or a failed get_packet
ReleasedFragId ==
    \/ tx_last.op = "free_context"
    \/ tx_last.op \in { "encap", "get_packet" } /\ tx_last.ret # "C_OK"

\* C34: a release of fragment-id i clears the in-use bit of i only: every
\* other fragment-id in use before the call is in use after it.
C34_ReleaseOneFragId ==
    ReleasedFragId =>
        /\ BitOf(trmt.free_ctx, tx_last.fid) = 0
        /\ \A g \in FragIds \ { tx_last.fid } :
               BitOf(trmt.free_ctx, g) = BitOf(tx_last.pre.free_ctx, g)

-----------------------------------------------------------------------------
(* Properties of the label type, checked under SpecLabel.                   *)

\* C33: rle_ctx_set_label_type stores the two legal label types (implicit
\* protocol type and signal) and rejects every other value without changing
\* the stored one; after a successful encapsulation the label type of the
\* context is the one create_header writes in the PPDU header.
C33_LabelType ==
    /\ tx_last.op = "set_label_type" =>
          IF tx_last.args \in { RLE_LT_IMPLICIT_PROTO_TYPE, RLE_LT_PROTO_SIGNAL }
          THEN PostCtx.label_type = tx_last.args
          ELSE PostCtx.label_type = PreCtx.label_type
    /\ (tx_last.op = "encap" /\ tx_last.ret = "C_OK") =>
          PostCtx.label_type = RLE_LT_IMPLICIT_PROTO_TYPE

-----------------------------------------------------------------------------
(* Properties of the receiver's counters, checked under SpecRx.             *)

\* C35: every PPDU the reassembly rejects (START, CONT or END, whatever the
\* state of the context) adds exactly one to the dropped counter of its
\* context; an END on a FREE context is one drop, as a CONT on one is.
C35_DropCountedOnce ==
    (rx_last.kind \in {"START", "CONT", "END"} /\ rx_last.ret = "C_ERROR") =>
        RxCtx.counter_dropped = rx_last.pre.counter_dropped + 1

\* the bytes the last call added to the dropped bytes of its context
RxBytesDropped == RxCtx.counter_bytes_dropped - rx_last.pre.counter_bytes_dropped

\* C36: a context never has more bytes dropped than bytes received; the
\* bytes an error adds to the dropped bytes are the bytes of the PPDUs
\* received for the SDU being dropped (the rejected PPDU alone on a FREE
\* context, the PPDUs since the START and the rejected one on a context in
\* use), so that no byte is counted as dropped twice.
C36_ByteAccounting ==
    /\ \A f \in FragIds :
           rcv.rle_ctx_man[f].counter_bytes_dropped <= rcv.rle_ctx_man[f].counter_bytes_in
    /\ (rx_last.kind \in {"CONT", "END"} /\ rx_last.ret = "C_ERROR") =>
           IF rx_last.was_free
           THEN RxBytesDropped = PpduLength(rx_last.ppdu)
           ELSE RxBytesDropped = rx_last.pre.current_counter + PpduLength(rx_last.ppdu)

\* the ALPDU header and trailer lengths of the START PPDU of the last call
RxStartHdrLen == alpdu_extract_sdu_frag(rx_last.ppdu, conf).hdr_len
RxStartTrailerLen == start_alpdu_trailer_len(rx_last.ppdu.crc)

\* C37: a START PPDU on a FREE context whose declared total ALPDU length is
\* below the ALPDU header and trailer lengths is rejected, the context
\* released and the SDU dropped; for an accepted START the recorded total
\* SDU length is total - header - trailer, computed without unsigned
\* wrap-around (a negative value stands for a wrapped size_t), and is at
\* most the maximal SDU size.
C37_StartLengthArithmetic ==
    (/\ rx_last.kind = "START"
     /\ rx_last.was_free
     /\ alpdu_extract_sdu_frag(rx_last.ppdu, conf).ret = 0) =>
        /\ rx_last.ppdu.total < RxStartHdrLen + RxStartTrailerLen =>
              /\ rx_last.ret = "C_ERROR"
              /\ is_context_free(rcv, RxFid)
              /\ RxCtx.counter_dropped = rx_last.pre.counter_dropped + 1
        /\ rx_last.ret = "C_OK" =>
              /\ RxCtx.buff.sdu_len
                     = rx_last.ppdu.total - RxStartHdrLen - RxStartTrailerLen
              /\ RxCtx.buff.sdu_len \in 0 .. RLE_MAX_PDU_SIZE

\* C38: when reassembly_end_ppdu returns an error (bytes missing, too many
\* bytes, trailer too short, VLAN reconstruction failed, wrong trailer) the
\* caller's reassembled_sdu is as it was before the call.
C38_NoOutputOnFailure ==
    (rx_last.kind = "END" /\ rx_last.ret = "C_ERROR") =>
        reassembled_sdu = rx_last.pre_sdu

-----------------------------------------------------------------------------
(* Properties of the assertions of the reassembly, checked under SpecVlan.  *)

\* the ALPDU header of the PPDU of the last call, as the receiver reads it
RxExtracted == alpdu_extract_sdu_frag(rx_last.ppdu, conf)

\* C39: no assertion of the reassembly fails, whatever the PPDUs: the
\* fragment-id of a PPDU is in 0..7; at an END PPDU on a context in use the
\* recorded SDU size is the SDU length of the reassembly buffer; the
\* protocol type is VLAN (0x8100) whenever the compressed type is 0x31, in
\* a COMP PPDU and in the buffer an END PPDU completes.
C39_NoFatalError ==
    /\ rx_last.kind # "NONE" => rx_last.fid \in 0 .. RLE_MAX_FRAG_ID
    /\ (rx_last.kind = "END" /\ ~rx_last.was_free) =>
           /\ rx_last.pre.buff.size = rasm_buf_get_sdu_len(rx_last.pre.buff)
           /\ rx_last.pre.buff.comp_protocol_type
                  = RLE_PROTO_TYPE_VLAN_COMP_WO_PTYPE_FIELD
              => rx_last.pre.buff.protocol_type = RLE_PROTO_TYPE_VLAN_UNCOMP
    /\ (/\ rx_last.kind = "COMP"
        /\ RxExtracted.ret = 0
        /\ RxExtracted.comp_ptype = RLE_PROTO_TYPE_VLAN_COMP_WO_PTYPE_FIELD) =>
           RxExtracted.ptype = RLE_PROTO_TYPE_VLAN_UNCOMP

\* an END PPDU completed, on a context in use, a frame of compressed type
\* 0x31 cut in two
C39_Witness ==
    /\ rx_last.kind = "END"
    /\ ~rx_last.was_free
    /\ rx_last.pre.buff.comp_protocol_type = RLE_PROTO_TYPE_VLAN_COMP_WO_PTYPE_FIELD
    /\ rx_last.pre.buff.size = 17
    /\ rx_last.ret = "C_REASSEMBLY_OK"

-----------------------------------------------------------------------------
(* Properties of the context after an encapsulation, checked under          *)
(* SpecEncap.                                                               *)

\* C40: when the encapsulation of data_length bytes returns C_OK the
\* context records pdu_length = remaining_pdu_length = data_length and
\* rle_length = data_length + the size of the protocol-type field, is not
\* fragmented and has frag_counter 1: no length of an earlier PDU (or of
\* the flushed context) survives.
C40_ContextLengths ==
    (tx_last.op = "encap" /\ tx_last.ret = "C_OK") =>
        /\ PostCtx.pdu_length = Len(tx_last.args.sdu)
        /\ PostCtx.remaining_pdu_length = Len(tx_last.args.sdu)
        /\ PostCtx.rle_length = Len(tx_last.args.sdu) + RLE_PROTO_TYPE_FIELD_SIZE
        /\ ~PostCtx.is_fragmented
        /\ PostCtx.frag_counter = 1

====
